---- MODULE Spec2Model ----
(***************************************************************************)
(* A model of the Pluto voice assistant: the intent classifier             *)
(* (command.py: query_ollama_smart, get_ai_intent, handle_fallback), the   *)
(* command dispatcher and its tool handlers (command.py: execute_command   *)
(* and the TOOLS registry), the wake/command detector and the listening    *)
(* loop (app.py), the web event handlers (app.py) and the per-call speech  *)
(* threads (tts.py).                                                       *)
(*                                                                         *)
(* Texts are TLA+ strings handled character by character, as Python        *)
(* handles them: lower(), strip(), replace(), find(), the `in` test and    *)
(* the regular expressions of app.py are computed, not assumed.            *)
(***************************************************************************)
EXTENDS Integers, Sequences, FiniteSets, Bags, TLC

VARIABLES
    is_listening,          \* app.py AppState.is_listening
    current_lang,          \* app.py AppState.current_lang
    listener_started,      \* app.py handle_connect.listener_started
    last_generated_code,   \* command.py AIConfig.last_generated_code
    clipboard,             \* the system clipboard (pyperclip)
    lpc,                   \* the listener thread's position in continuous_listener
    consecutive_failures,  \* continuous_listener's local counter
    heard,                 \* continuous_listener's locals text / detected_lang
    frames,                \* the running handle_command calls, per calling thread
    pending,               \* speech threads started by speak() that wait for the TTS lock
    speaking,              \* the speech thread that holds the TTS lock
    t_text,                \* harness: the text handed to a function under test
    t_out,                 \* harness: what the model subprocess does
    t_intent,              \* harness: the intent handed to / returned by the function
    t_lang,                \* harness: the lang argument
    t_env,                 \* harness: what the operating system does
    t_res,                 \* harness: the result of the call
    t_pc                   \* harness: position of the harness

vars == <<is_listening, current_lang, listener_started, last_generated_code,
          clipboard, lpc, consecutive_failures, heard, frames, pending, speaking,
          t_text, t_out, t_intent, t_lang, t_env, t_res, t_pc>>

appVars == <<is_listening, current_lang, listener_started, last_generated_code,
             clipboard, lpc, consecutive_failures, heard, frames, pending, speaking>>

harnessVars == <<t_text, t_out, t_intent, t_lang, t_env, t_res, t_pc>>

(***************************************************************************)
(* Python's str operations.                                                *)
(***************************************************************************)
UpperChars == "ABCDEFGHIJKLMNOPQRSTUVWXYZ"

LowerChars == "abcdefghijklmnopqrstuvwxyz"

Digits == "0123456789"

Char(s, i) == SubSeq(s, i, i)

\* the character at position i, or "" past the end
At(s, i) == IF i >= 1 /\ i <= Len(s) THEN Char(s, i) ELSE ""

CharIn(c, alphabet) == \E i \in 1..Len(alphabet) : Char(alphabet, i) = c

\* str.isspace for one character
IsSpace(c) == c \in {" ", "\t", "\n", "\r"}

\* the regular expression class \w
IsWordChar(c) == CharIn(c, LowerChars) \/ CharIn(c, UpperChars) \/ CharIn(c, Digits) \/ c = "_"

LowerChar(c) ==
    IF CharIn(c, UpperChars)
    THEN Char(LowerChars, CHOOSE i \in 1..Len(UpperChars) : Char(UpperChars, i) = c)
    ELSE c

RECURSIVE Lower(_)
\* str.lower
Lower(s) == IF s = "" THEN "" ELSE LowerChar(Char(s, 1)) \o Lower(Tail(s))

RECURSIVE LStrip(_)
LStrip(s) == IF s = "" THEN "" ELSE IF IsSpace(Char(s, 1)) THEN LStrip(Tail(s)) ELSE s

RECURSIVE RStrip(_)
RStrip(s) ==
    IF s = "" THEN ""
    ELSE IF IsSpace(Char(s, Len(s))) THEN RStrip(SubSeq(s, 1, Len(s) - 1)) ELSE s

\* str.strip
Strip(s) == RStrip(LStrip(s))

\* s[i-1:].startswith(w), i counted from 1
StartsAt(s, w, i) == i + Len(w) - 1 <= Len(s) /\ SubSeq(s, i, i + Len(w) - 1) = w

\* w in s
Contains(s, w) == \E i \in 1..(Len(s) - Len(w) + 1) : StartsAt(s, w, i)

\* any(w in s for w in ws)
ContainsAny(s, ws) == \E w \in ws : Contains(s, w)

\* s.find(w): the index, from 0, of the first occurrence, or -1
Find(s, w) ==
    IF Contains(s, w)
    THEN (CHOOSE i \in 1..(Len(s) - Len(w) + 1) :
             StartsAt(s, w, i) /\ \A j \in 1..(i - 1) : ~StartsAt(s, w, j)) - 1
    ELSE -1

\* s.rfind(w): the index, from 0, of the last occurrence, or -1
RFind(s, w) ==
    IF Contains(s, w)
    THEN (CHOOSE i \in 1..(Len(s) - Len(w) + 1) :
             StartsAt(s, w, i) /\ \A j \in (i + 1)..(Len(s) - Len(w) + 1) : ~StartsAt(s, w, j)) - 1
    ELSE -1

\* s[a:b] for 0 <= a and 0 <= b
Slice(s, a, b) == SubSeq(s, a + 1, IF b > Len(s) THEN Len(s) ELSE b)

RECURSIVE Remove(_, _)
\* s.replace(w, "") for a non-empty w: every non-overlapping occurrence, left to right
Remove(s, w) ==
    IF Len(s) < Len(w) THEN s
    ELSE IF StartsAt(s, w, 1) THEN Remove(SubSeq(s, Len(w) + 1, Len(s)), w)
    ELSE Char(s, 1) \o Remove(Tail(s), w)

RECURSIVE RemoveEach(_, _)
\* for word in ws: s = s.replace(word, "").strip()
RemoveEach(s, ws) ==
    IF ws = <<>> THEN s ELSE RemoveEach(Strip(Remove(s, Head(ws))), Tail(ws))

\* s.endswith(w)
EndsWith(s, w) == Len(w) <= Len(s) /\ SubSeq(s, Len(s) - Len(w) + 1, Len(s)) = w

\* s.startswith(w)
StartsWith(s, w) == StartsAt(s, w, 1)

\* the regular expression assertion \b between positions i-1 and i of s
Boundary(s, i) ==
    LET before == i > 1 /\ i - 1 <= Len(s) /\ IsWordChar(Char(s, i - 1))
        after  == i >= 1 /\ i <= Len(s) /\ IsWordChar(Char(s, i))
    IN before # after

\* re.search(r'\b(w)\b', s)
HasWord(s, w) ==
    \E i \in 1..(Len(s) - Len(w) + 1) :
        StartsAt(s, w, i) /\ Boundary(s, i) /\ Boundary(s, i + Len(w))

\* s[i-1:j-1] is a non-empty run of whitespace
SpaceRun(s, i, j) == i < j /\ \A k \in i..(j - 1) : IsSpace(Char(s, k))

\* re.search(r'\bhey\s+(pluto|ghost)\b', s)
HasHeyPattern(s) ==
    \E i \in 1..Len(s) :
        /\ StartsAt(s, "hey", i)
        /\ Boundary(s, i)
        /\ \E j \in (i + 4)..Len(s) : \E w \in {"pluto", "ghost"} :
              /\ StartsAt(s, w, j)
              /\ SpaceRun(s, i + 3, j)
              /\ Boundary(s, j + Len(w))

\* re.search(r'\b' + verb + r'\s+\w+', s)
HasVerbThenWord(s, verb) ==
    \E i \in 1..Len(s) :
        /\ StartsAt(s, verb, i)
        /\ Boundary(s, i)
        /\ \E j \in (i + Len(verb) + 1)..Len(s) :
              /\ SpaceRun(s, i + Len(verb), j)
              /\ IsWordChar(Char(s, j))

\* re.search(r'\b' + verb + r'\s+', s)
HasVerbThenSpace(s, verb) ==
    \E i \in 1..Len(s) :
        /\ StartsAt(s, verb, i)
        /\ Boundary(s, i)
        /\ IsSpace(At(s, i + Len(verb)))

\* re.search(r'\w+\s+' + particle, s)
HasWordThenParticle(s, particle) ==
    \E j \in 3..Len(s) :
        /\ StartsAt(s, particle, j)
        /\ \E i \in 1..(j - 2) :
              /\ SpaceRun(s, i + 1, j)
              /\ IsWordChar(Char(s, i))

(***************************************************************************)
(* json.loads, for the JSON texts made of objects and strings without      *)
(* escapes (the shape get_ai_intent's prompt asks the model for). A parsed *)
(* object is a function from its keys; a later duplicate key wins.         *)
(***************************************************************************)
RECURSIVE SkipWs(_, _)
SkipWs(s, i) == IF IsSpace(At(s, i)) THEN SkipWs(s, i + 1) ELSE i

ParseFail == [ok |-> FALSE, val |-> "", next |-> 0]

ParseString(s, i) ==
    IF At(s, i) = "\"" /\ \E j \in (i + 1)..Len(s) : Char(s, j) = "\""
    THEN LET j == CHOOSE k \in (i + 1)..Len(s) :
                      Char(s, k) = "\"" /\ \A m \in (i + 1)..(k - 1) : Char(s, m) # "\""
             body == SubSeq(s, i + 1, j - 1)
         IN IF \E m \in 1..Len(body) : Char(body, m) \in {"\\", "\n", "\t", "\r"}
            THEN ParseFail
            ELSE [ok |-> TRUE, val |-> body, next |-> j + 1]
    ELSE ParseFail

RECURSIVE ParseValue(_, _)
RECURSIVE ParseMembers(_, _, _)

ParseMembers(s, i, acc) ==
    LET key == ParseString(s, i)
        colon == SkipWs(s, key.next)
        val == ParseValue(s, SkipWs(s, colon + 1))
        after == SkipWs(s, val.next)
        obj == (key.val :> val.val) @@ acc
    IN IF ~key.ok \/ At(s, colon) # ":" THEN ParseFail
       ELSE IF ~val.ok THEN ParseFail
       ELSE IF At(s, after) = "}" THEN [ok |-> TRUE, val |-> obj, next |-> after + 1]
       ELSE IF At(s, after) = "," THEN ParseMembers(s, SkipWs(s, after + 1), obj)
       ELSE ParseFail

ParseValue(s, i) ==
    IF At(s, i) = "\"" THEN ParseString(s, i)
    ELSE IF At(s, i) = "{"
         THEN LET k == SkipWs(s, i + 1)
              IN IF At(s, k) = "}"
                 THEN [ok |-> TRUE, val |-> <<>>, next |-> k + 1]
                 ELSE ParseMembers(s, k, <<>>)
    ELSE ParseFail

\* json.loads(s): ok is FALSE where json.loads raises
JsonLoads(s) ==
    LET r == ParseValue(s, SkipWs(s, 1))
    IN IF r.ok /\ SkipWs(s, r.next) = Len(s) + 1
       THEN [ok |-> TRUE, val |-> r.val]
       ELSE [ok |-> FALSE, val |-> ""]

\* the elements of a sequence
Range(seq) == {seq[i] : i \in 1..Len(seq)}

(***************************************************************************)
(* The wake/command detector (app.py).                                     *)
(***************************************************************************)
wake_words == <<"pluto", "ghost", "hey pluto", "hey ghost", "pluto anna", "ghost anna">>

DetectWakeWord(text) ==
    IF text = "" THEN FALSE
    ELSE LET text_lower == Strip(Lower(text))
         IN \/ ContainsAny(text_lower, Range(wake_words))
            \/ \E w \in {"pluto", "bluto", "puto"} : HasWord(text_lower, w)
            \/ \E w \in {"ghost", "gost", "goast"} : HasWord(text_lower, w)
            \/ HasHeyPattern(text_lower)

IsDirectCommand(text) ==
    IF text = "" THEN FALSE
    ELSE LET text_lower == Lower(text)
         IN \/ HasVerbThenWord(text_lower, "open")
            \/ HasVerbThenWord(text_lower, "close")
            \/ HasVerbThenSpace(text_lower, "search")
            \/ HasWordThenParticle(text_lower, "thorakku")
            \/ HasWordThenParticle(text_lower, "muddu")
            \/ HasWordThenParticle(text_lower, "pannu")

(***************************************************************************)
(* The intent classifier (command.py).                                     *)
(***************************************************************************)
\* the keys of command.py's TOOLS, with the parameters each handler requires
TOOLS == {"open_app", "close_app", "search_web", "system_control", "play_media",
          "clipboard_action", "general_chat"}

RequiredParams(tool) ==
    CASE tool = "open_app" -> {"app_name"}
      [] tool = "close_app" -> {"app_name"}
      [] tool = "search_web" -> {"query"}
      [] tool = "system_control" -> {"action"}
      [] tool = "play_media" -> {"query", "platform"}
      [] tool = "clipboard_action" -> {"action", "target_app"}
      [] tool = "general_chat" -> {"query"}

MediaWords == <<"play", "kelu", "pottu">>

ClipboardWords == <<"copy", "paste", "clipboard">>

ShutdownWords == <<"shutdown", "shut down", "power off", "turn off">>

RestartWords == <<"restart", "reboot", "reset">>

SleepWords == <<"sleep", "suspend">>

LogoutWords == <<"logout", "log out", "sign out">>

SystemWords == ShutdownWords \o RestartWords \o <<"reopen">> \o SleepWords
               \o <<"hibernate">> \o LogoutWords \o <<"lock">>

OpenWords == <<"open", "launch", "start", "run", "thorakku", "thoraku", "pannu", "podu">>

OpenFillers == <<"the", "app", "application", "please", "computer", "system">>

CloseWords == <<"close", "quit", "exit", "stop", "muddu", "mudu">>

SearchWords == <<"search", "find", "lookup", "thedi", "google">>

SearchFillers == <<"search for", "search", "find", "lookup", "thedi", "google",
                   "on google", "in google">>

FallbackMedia(text_lower) ==
    LET platform == IF Contains(text_lower, "spotify") THEN "spotify"
                    ELSE IF Contains(text_lower, "soundcloud") THEN "soundcloud"
                    ELSE "youtube"
        query == RemoveEach(text_lower, MediaWords \o <<"on", "in", "la", platform>>)
    IN [tool |-> "play_media", parameters |-> [query |-> query, platform |-> platform]]

FallbackClipboard(text_lower) ==
    LET action == IF Contains(text_lower, "paste") /\ ~Contains(text_lower, "copy") THEN "paste"
                  ELSE IF Contains(text_lower, "copy") /\ ~Contains(text_lower, "paste") THEN "copy"
                  ELSE "copy_paste"
        target_app == IF Contains(text_lower, "vscode") \/ Contains(text_lower, "vs code") THEN "vscode"
                      ELSE IF Contains(text_lower, "notepad++") THEN "notepadplusplus"
                      ELSE "notepad"
    IN [tool |-> "clipboard_action",
        parameters |-> [action |-> action, target_app |-> target_app]]

FallbackSystem(text_lower) ==
    LET action == IF ContainsAny(text_lower, Range(ShutdownWords)) THEN "shutdown"
                  ELSE IF ContainsAny(text_lower, Range(RestartWords)) THEN "restart"
                  ELSE IF ContainsAny(text_lower, Range(SleepWords)) THEN "sleep"
                  ELSE IF Contains(text_lower, "hibernate") THEN "hibernate"
                  ELSE IF ContainsAny(text_lower, Range(LogoutWords)) THEN "logout"
                  ELSE IF Contains(text_lower, "lock") THEN "lock"
                  ELSE "shutdown"
    IN [tool |-> "system_control", parameters |-> [action |-> action]]

FallbackOpen(text_lower) ==
    [tool |-> "open_app",
     parameters |-> [app_name |-> RemoveEach(RemoveEach(text_lower, OpenWords), OpenFillers)]]

FallbackClose(text_lower) ==
    [tool |-> "close_app", parameters |-> [app_name |-> RemoveEach(text_lower, CloseWords)]]

FallbackSearch(text_lower) ==
    [tool |-> "search_web", parameters |-> [query |-> RemoveEach(text_lower, SearchFillers)]]

\* handle_fallback with the system-control rule tried before the media rule
HandleFallbackSystemFirst(text) ==
    LET text_lower == Lower(text)
    IN IF ContainsAny(text_lower, Range(SystemWords)) THEN FallbackSystem(text_lower)
       ELSE IF ContainsAny(text_lower, Range(MediaWords)) THEN FallbackMedia(text_lower)
       ELSE IF ContainsAny(text_lower, Range(ClipboardWords)) THEN FallbackClipboard(text_lower)
       ELSE IF ContainsAny(text_lower, Range(OpenWords)) THEN FallbackOpen(text_lower)
       ELSE IF ContainsAny(text_lower, Range(CloseWords)) THEN FallbackClose(text_lower)
       ELSE IF ContainsAny(text_lower, Range(SearchWords)) THEN FallbackSearch(text_lower)
       ELSE [tool |-> "general_chat", parameters |-> [query |-> text]]

\* handle_fallback looking at the code cache: with nothing cached, the clipboard
\* rule is passed over
HandleFallbackCacheAware(text) ==
    LET text_lower == Lower(text)
    IN IF ContainsAny(text_lower, Range(MediaWords)) THEN FallbackMedia(text_lower)
       ELSE IF last_generated_code # "" /\ ContainsAny(text_lower, Range(ClipboardWords))
       THEN FallbackClipboard(text_lower)
       ELSE IF ContainsAny(text_lower, Range(SystemWords)) THEN FallbackSystem(text_lower)
       ELSE IF ContainsAny(text_lower, Range(OpenWords)) THEN FallbackOpen(text_lower)
       ELSE IF ContainsAny(text_lower, Range(CloseWords)) THEN FallbackClose(text_lower)
       ELSE IF ContainsAny(text_lower, Range(SearchWords)) THEN FallbackSearch(text_lower)
       ELSE [tool |-> "general_chat", parameters |-> [query |-> text]]

\* handle_fallback(text)
HandleFallback(text) ==
    LET text_lower == Lower(text)
    IN IF ContainsAny(text_lower, Range(MediaWords)) THEN FallbackMedia(text_lower)
       ELSE IF ContainsAny(text_lower, Range(ClipboardWords)) THEN FallbackClipboard(text_lower)
       ELSE IF ContainsAny(text_lower, Range(SystemWords)) THEN FallbackSystem(text_lower)
       ELSE IF ContainsAny(text_lower, Range(OpenWords)) THEN FallbackOpen(text_lower)
       ELSE IF ContainsAny(text_lower, Range(CloseWords)) THEN FallbackClose(text_lower)
       ELSE IF ContainsAny(text_lower, Range(SearchWords)) THEN FallbackSearch(text_lower)
       ELSE [tool |-> "general_chat", parameters |-> [query |-> text]]

\* AIConfig.TASK_MODELS and AIConfig.MODEL_FALLBACK
TASK_MODELS == [fast |-> "phi3:mini", deep |-> "llama3:instruct", reasoning |-> "mistral:latest"]

MODEL_FALLBACK == <<"phi3:mini", "llama3:instruct", "mistral:latest">>

fast_keywords == {"open", "close", "start", "stop", "launch", "quit", "exit",
                  "play", "pause", "skip", "next", "previous", "volume",
                  "shutdown", "restart", "sleep", "hibernate", "copy", "paste",
                  "thorakku", "muddu", "pannu", "podu", "kelu", "ninruthu",
                  "hello", "hi", "vanakkam", "thanks", "bye"}

deep_keywords == {"explain", "what is", "who is", "where is", "when did", "how does",
                  "definition", "meaning", "history", "biography", "facts about",
                  "tell me about", "describe", "overview", "summary", "information"}

reasoning_keywords == {"solve", "calculate", "compute", "analyze", "compare", "evaluate",
                       "problem", "puzzle", "logic", "reasoning", "algorithm", "code",
                       "generate code", "write code", "create program", "debug",
                       "programming"}

\* sum(1 for keyword in keywords if keyword in query_lower)
Score(query_lower, keywords) == Cardinality({k \in keywords : Contains(query_lower, k)})

\* the tier select_model_for_task prefers by its keyword scores
ScoredTier(query_lower) ==
    IF /\ Score(query_lower, reasoning_keywords) > Score(query_lower, fast_keywords)
       /\ Score(query_lower, reasoning_keywords) > Score(query_lower, deep_keywords)
    THEN "reasoning"
    ELSE IF Score(query_lower, deep_keywords) > Score(query_lower, fast_keywords)
    THEN "deep"
    ELSE "fast"

\* the availability fallback with the preferred model as the last resort
AvailableOrItself(available, preferred_model) ==
    IF preferred_model \in available THEN preferred_model
    ELSE IF \E i \in 1..Len(MODEL_FALLBACK) : MODEL_FALLBACK[i] \in available
    THEN MODEL_FALLBACK[CHOOSE i \in 1..Len(MODEL_FALLBACK) :
                            /\ MODEL_FALLBACK[i] \in available
                            /\ \A j \in 1..(i - 1) : MODEL_FALLBACK[j] \notin available]
    ELSE preferred_model

\* the preferred model if `ollama list` names it, else the first model of
\* MODEL_FALLBACK it names, else "phi3:mini"
AvailableOr(available, preferred_model) ==
    IF preferred_model \in available THEN preferred_model
    ELSE IF \E i \in 1..Len(MODEL_FALLBACK) : MODEL_FALLBACK[i] \in available
    THEN MODEL_FALLBACK[CHOOSE i \in 1..Len(MODEL_FALLBACK) :
                            /\ MODEL_FALLBACK[i] \in available
                            /\ \A j \in 1..(i - 1) : MODEL_FALLBACK[j] \notin available]
    ELSE "phi3:mini"

\* select_model_for_task with the task_type argument left unread
select_model_by_score(available, query, task_type) ==
    AvailableOr(available, TASK_MODELS[ScoredTier(Lower(query))])

\* AIConfig.select_model_for_task(query, task_type), `ollama list` naming the
\* models of available; task_type is "" for None
select_model_for_task(available, query, task_type) ==
    IF task_type \in DOMAIN TASK_MODELS /\ TASK_MODELS[task_type] \in available
    THEN TASK_MODELS[task_type]
    ELSE AvailableOr(available, TASK_MODELS[ScoredTier(Lower(query))])

\* what query_ollama_smart returns when the model call did not give an accepted response
FailPayload == "{\"tool\": \"general_chat\", \"parameters\": {\"query\": \"AI model failed.\"}}"

\* the response has a marker of source code
HasCodeMarker(response) ==
    Contains(response, "def ") \/ Contains(response, "import ") \/ Contains(response, "class ")

\* the subprocess returned and its output passes query_ollama_smart's test
Accepted(out) ==
    /\ out.kind = "ok"
    /\ LET response == Strip(out.stdout)
       IN response # "" /\ ~Contains(response, "Error:") /\ Len(response) > 10

\* query_ollama_smart, given what the model subprocess does (out) and the cached
\* code: the response returned and the cached code afterwards
QueryOllamaSmart(out, code) ==
    IF Accepted(out)
    THEN LET response == Strip(out.stdout)
         IN [response |-> response,
             code |-> IF HasCodeMarker(response) THEN response ELSE code]
    ELSE [response |-> FailPayload, code |-> code]

\* get_ai_intent answering a parse error with a chat intent instead of the rules
IntentOfResponseChatOnError(text, response) ==
    LET start == Find(response, "{")
        end == RFind(response, "}") + 1
    IN IF start # -1 /\ end # 0
       THEN LET parsed == JsonLoads(Slice(response, start, end))
            IN IF parsed.ok THEN parsed.val
               ELSE [tool |-> "general_chat", parameters |-> [query |-> text]]
       ELSE HandleFallback(text)

\* the intent get_ai_intent derives from a response of query_ollama_smart
IntentOfResponse(text, response) ==
    LET start == Find(response, "{")
        end == RFind(response, "}") + 1
    IN IF start # -1 /\ end # 0
       THEN LET parsed == JsonLoads(Slice(response, start, end))
            IN IF parsed.ok THEN parsed.val ELSE HandleFallback(text)
       ELSE HandleFallback(text)

\* get_ai_intent(text): the intent returned and the cached code afterwards
GetAiIntent(text, out, code) ==
    LET q == QueryOllamaSmart(out, code)
    IN [intent |-> IntentOfResponse(text, q.response), code |-> q.code]

(***************************************************************************)
(* The capability registry (command.py MediaControlAppDiscovery). What the *)
(* operating system holds and does is the record env:                      *)
(*   manual         the optional manually mapped apps whose path exists    *)
(*   installed      the registry's apps, in scan order: <<name, path>>     *)
(*   missing        the registry paths that no longer exist                *)
(*   launch_raises  os.system / webbrowser.open / subprocess.Popen raises  *)
(*   taskkill       "ok", "not_running" (CalledProcessError) or "error"    *)
(*   clip_raises    pyperclip.copy raises                                  *)
(*   hotkey_raises  pyautogui.hotkey raises                                *)
(*   out            what the model subprocess does when a handler asks it  *)
(***************************************************************************)
NotFound == ""

system_commands == {"shutdown", "restart", "reboot", "sleep", "hibernate", "logout", "lock"}

\* the apps setup_manual_mappings always maps (their path does not start with C:)
AlwaysMapped == {"notepad", "calculator", "paint"}

\* the apps setup_manual_mappings maps when one of their paths exists
OptionallyMapped == {"chrome", "firefox", "spotify", "whatsapp", "vscode", "notepadplusplus"}

ManualPath(app) ==
    CASE app = "notepad" -> "notepad.exe"
      [] app = "calculator" -> "calc.exe"
      [] app = "paint" -> "mspaint.exe"
      [] app = "chrome" -> "C:\\Program Files\\Google\\Chrome\\Application\\chrome.exe"
      [] app = "firefox" -> "C:\\Program Files\\Mozilla Firefox\\firefox.exe"
      [] app = "spotify" -> "C:\\Users\\User\\AppData\\Roaming\\Spotify\\Spotify.exe"
      [] app = "whatsapp" -> "C:\\Users\\User\\AppData\\Local\\WhatsApp\\WhatsApp.exe"
      [] app = "vscode" -> "C:\\Program Files\\Microsoft VS Code\\Code.exe"
      [] app = "notepadplusplus" -> "C:\\Program Files\\Notepad++\\notepad++.exe"

manual_app_paths(env) == AlwaysMapped \cup env.manual

web_apps == {"youtube", "gmail", "facebook", "twitter", "instagram", "netflix", "amazon",
             "github", "reddit"}

\* web_apps[app]
WebUrl(app) ==
    CASE app = "youtube" -> "https://www.youtube.com"
      [] app = "gmail" -> "https://mail.google.com"
      [] app = "facebook" -> "https://www.facebook.com"
      [] app = "twitter" -> "https://www.twitter.com"
      [] app = "instagram" -> "https://www.instagram.com"
      [] app = "netflix" -> "https://www.netflix.com"
      [] app = "amazon" -> "https://www.amazon.com"
      [] app = "github" -> "https://www.github.com"
      [] app = "reddit" -> "https://www.reddit.com"

media_platforms == {"youtube", "spotify", "soundcloud"}

\* media_platforms[platform]['app_launch']
AppLaunchOf(platform) == IF platform = "spotify" THEN "spotify" ELSE NotFound

process_map == {"chrome", "firefox", "edge", "spotify", "discord", "vscode", "notepad",
                "notepadplusplus", "whatsapp", "calculator"}

\* a character of the class [\s\d\.]
IsVersionTail(c) == IsSpace(c) \/ CharIn(c, Digits) \/ c = "."

VersionWords == {"x64", "64-bit", "32-bit", "build", "version"}

\* re.sub(r'\s*\(.*?\)$', '', name).strip()
DropParenSuffix(name) ==
    IF EndsWith(name, ")") /\ Find(name, "(") # -1
    THEN Strip(Slice(name, 0, Find(name, "(")))
    ELSE Strip(name)

\* a version word stands at position k of name and only [\s\d\.] follows it
VersionAt(name, k) ==
    \E w \in VersionWords :
        /\ StartsAt(Lower(name), w, k)
        /\ \A m \in (k + Len(w))..Len(name) : IsVersionTail(Char(name, m))

\* re.sub(r'\s*(x64|64-bit|32-bit|build|version)[\s\d\.]*$', '', name, flags=re.IGNORECASE).strip()
DropVersionSuffix(name) ==
    IF \E k \in 1..Len(name) : VersionAt(name, k)
    THEN Strip(SubSeq(name, 1, (CHOOSE k \in 1..Len(name) :
                                    VersionAt(name, k) /\ \A j \in 1..(k - 1) : ~VersionAt(name, j)) - 1))
    ELSE Strip(name)

clean_app_name(name) == Lower(DropVersionSuffix(DropParenSuffix(name)))

\* os.path.exists(path) for a path of the registry scan
PathExists(env, path) == path \notin env.missing

\* installed_apps as the dict the scan builds: the last entry of a name wins
InstalledPath(env, app_name_clean) ==
    LET hits == {i \in 1..Len(env.installed) : env.installed[i][1] = app_name_clean}
    IN IF hits = {} THEN NotFound
       ELSE env.installed[CHOOSE i \in hits : \A j \in hits : j <= i][2]

\* the keys of installed_apps that strategy 6 of find_app accepts, each at the
\* position the dict iterates it: where the scan first met the name
PartialMatches(env, app_name_clean) ==
    {i \in 1..Len(env.installed) :
        /\ \A j \in 1..(i - 1) : env.installed[j][1] # env.installed[i][1]
        /\ Contains(env.installed[i][1], app_name_clean)
        /\ PathExists(env, InstalledPath(env, env.installed[i][1]))}

\* find_app with the media platforms tried before the web apps
FindCleanMediaBeforeWeb(env, app_name_clean) ==
    LET exact == InstalledPath(env, app_name_clean)
        partial == PartialMatches(env, app_name_clean)
    IN IF app_name_clean \in system_commands THEN "system:" \o app_name_clean
       ELSE IF app_name_clean \in manual_app_paths(env) THEN ManualPath(app_name_clean)
       ELSE IF app_name_clean \in media_platforms THEN "media:" \o app_name_clean
       ELSE IF app_name_clean \in web_apps THEN "web:" \o WebUrl(app_name_clean)
       ELSE IF exact # NotFound /\ PathExists(env, exact) THEN exact
       ELSE IF partial # {}
            THEN InstalledPath(env, env.installed[CHOOSE i \in partial :
                                                      \A j \in partial : i <= j][1])
       ELSE NotFound

\* the strategies of find_app, in order, on the cleaned name
FindClean(env, app_name_clean) ==
    LET exact == InstalledPath(env, app_name_clean)
        partial == PartialMatches(env, app_name_clean)
    IN IF app_name_clean \in system_commands THEN "system:" \o app_name_clean
       ELSE IF app_name_clean \in manual_app_paths(env) THEN ManualPath(app_name_clean)
       ELSE IF app_name_clean \in web_apps THEN "web:" \o WebUrl(app_name_clean)
       ELSE IF app_name_clean \in media_platforms THEN "media:" \o app_name_clean
       ELSE IF exact # NotFound /\ PathExists(env, exact) THEN exact
       ELSE IF partial # {}
            THEN InstalledPath(env, env.installed[CHOOSE i \in partial :
                                                      \A j \in partial : i <= j][1])
       ELSE NotFound

\* find_app(app_name): "system:<name>", a path, "web:<name>", "media:<name>" or NotFound
find_app(env, app_name) == FindClean(env, clean_app_name(app_name))

\* a path find_app found that is none of its "web:", "media:" and "system:" targets
IsDesktopPath(path) ==
    /\ path # NotFound
    /\ ~StartsWith(path, "web:")
    /\ ~StartsWith(path, "media:")
    /\ ~StartsWith(path, "system:")

\* one effect on the world outside the process
Effect(op, target) == [op |-> op, target |-> target, lang |-> ""]

\* launch_app(app_path): whether it reports success, and what it did
launch_app(env, app_path) ==
    LET done(what) == IF env.launch_raises
                      THEN [ok |-> FALSE, trace |-> <<>>]
                      ELSE [ok |-> TRUE, trace |-> <<Effect(what, app_path)>>]
    IN IF StartsWith(app_path, "system:")
       THEN IF Slice(app_path, 7, Len(app_path)) \in system_commands
            THEN done("os.system")
            ELSE [ok |-> FALSE, trace |-> <<>>]
       ELSE IF StartsWith(app_path, "web:") THEN done("webbrowser.open")
       ELSE IF StartsWith(app_path, "media:")
            THEN IF Slice(app_path, 6, Len(app_path)) \in media_platforms
                 THEN LET app_launch == AppLaunchOf(Slice(app_path, 6, Len(app_path)))
                      IN IF IsDesktopPath(IF app_launch = NotFound THEN NotFound
                                          ELSE find_app(env, app_launch))
                         THEN done("subprocess.Popen")
                         ELSE done("webbrowser.open")
                 ELSE [ok |-> FALSE, trace |-> <<>>]
       ELSE IF EndsWith(app_path, ".exe") THEN done("subprocess.Popen")
       ELSE [ok |-> FALSE, trace |-> <<>>]

\* MediaControlAppDiscovery.play_media(query, platform)
discovery_play_media(env, query, platform) ==
    IF clean_app_name(platform) \in media_platforms
    THEN IF env.launch_raises
         THEN [ok |-> FALSE, trace |-> <<>>]
         ELSE IF clean_app_name(platform) = "spotify" /\ IsDesktopPath(find_app(env, "spotify"))
                 THEN [ok |-> TRUE, trace |-> <<Effect("subprocess.Popen", find_app(env, "spotify")),
                                                Effect("webbrowser.open", "search:" \o query)>>]
                 ELSE [ok |-> TRUE, trace |-> <<Effect("webbrowser.open", "search:" \o query)>>]
    ELSE [ok |-> FALSE, trace |-> <<>>]

(***************************************************************************)
(* The tool handlers (command.py). A handler's result is what it did, in   *)
(* order (trace: speak calls and effects on the world), whether it raised, *)
(* whether it took one of its failure branches, and the cached code and    *)
(* the clipboard afterwards.                                               *)
(***************************************************************************)
\* tts.speak(msg, lang): it returns at once, doing nothing, for a blank message
Speak(msg, lang) ==
    IF Strip(msg) = "" THEN <<>> ELSE <<[op |-> "speak", target |-> msg, lang |-> lang]>>

\* msg = en; if lang == "ta": msg = ta; speak(msg, lang)
Say(en, ta, lang) == Speak(IF lang = "ta" THEN ta ELSE en, lang)

Result(trace, raised, failed, code, clip) ==
    [trace |-> trace, raised |-> raised, failed |-> failed, code |-> code, clipboard |-> clip]

\* open_app once find_app has returned app_path
Opened(env, code, clip, app_name, lang, app_path) ==
    LET launched == launch_app(env, app_path)
    IN IF app_path = NotFound
       THEN Result(Say("I couldn't find " \o app_name, app_name \o " kandupidikka mudiyala", lang),
                   FALSE, TRUE, code, clip)
       ELSE IF launched.ok
            THEN Result(launched.trace \o
                        (IF StartsWith(app_path, "system:")
                         THEN Say("Executing " \o app_name, app_name \o " panren", lang)
                         ELSE Say("Opening " \o app_name, app_name \o " thorakkuren", lang)),
                        FALSE, FALSE, code, clip)
            ELSE Result(launched.trace \o
                        Say("Sorry, couldn't complete that action", "Adhu panna mudiyala", lang),
                        FALSE, TRUE, code, clip)

open_app(env, code, clip, app_name, lang) ==
    Opened(env, code, clip, app_name, lang, find_app(env, app_name))

play_media(env, code, clip, query, platform, lang) ==
    LET played == discovery_play_media(env, query, platform)
    IN IF played.ok
       THEN Result(played.trace \o
                   (IF Lower(platform) = "youtube"
                    THEN Say("Playing " \o query \o " on YouTube",
                             query \o " YouTube-la play panren", lang)
                    ELSE IF Lower(platform) = "spotify"
                    THEN Say("Playing " \o query \o " on Spotify",
                             query \o " Spotify-la kekka pottutten", lang)
                    ELSE Say("Playing " \o query \o " on " \o platform,
                             query \o " " \o platform \o "-la play panren", lang)),
                   FALSE, FALSE, code, clip)
       ELSE Result(Say("Sorry, couldn't play " \o query \o " on " \o platform,
                       query \o " " \o platform \o "-la play panna mudiyala", lang),
                   FALSE, TRUE, code, clip)

\* the part of clipboard_action that opens target_app, found at app_path, and
\* pastes; copied is what the copy_paste branch did before it
PasteInto(env, code, clip, target_app, lang, copied, pasted_en, pasted_ta, silent, app_path) ==
    LET launched == launch_app(env, app_path)
        failure == Say("Clipboard operation failed", "Clipboard operation fail aachu", lang)
    IN IF app_path = NotFound
       THEN Result(copied \o (IF silent THEN <<>>
                              ELSE Say("Couldn't find " \o target_app,
                                       target_app \o " kandupidikka mudiyala", lang)),
                   FALSE, TRUE, code, clip)
       ELSE IF ~launched.ok
            THEN Result(copied \o launched.trace \o
                        (IF silent THEN <<>>
                         ELSE Say("Couldn't open " \o target_app,
                                  target_app \o " thorakka mudiyala", lang)),
                        FALSE, TRUE, code, clip)
       ELSE IF env.hotkey_raises
            THEN Result(copied \o launched.trace \o failure, FALSE, TRUE, code, clip)
       ELSE Result(copied \o launched.trace \o <<Effect("pyautogui.hotkey", "ctrl+v")>> \o
                   Say(pasted_en, pasted_ta, lang),
                   FALSE, FALSE, code, clip)

\* clipboard_action with the cached-code test in front of all three actions
clipboard_actionCodeFirst(env, code, clip, action, target_app, lang) ==
    IF code = "" /\ action \in {"copy_paste", "paste", "copy"}
    THEN Result(Say("No code to copy", "Copy panna code illai", lang), FALSE, TRUE, code, clip)
    ELSE IF env.clip_raises /\ action \in {"copy_paste", "copy"}
    THEN Result(Say("Clipboard operation failed", "Clipboard operation fail aachu", lang),
                FALSE, TRUE, code, clip)
    ELSE IF action = "copy_paste"
    THEN PasteInto(env, code, code, target_app, lang,
                   <<Effect("pyperclip.copy", code)>> \o
                   Say("Code copied to clipboard", "Code clipboard-la copy pannitten", lang),
                   "Code pasted in " \o target_app,
                   "Code " \o target_app \o "-la paste pannitten", FALSE,
                   find_app(env, target_app))
    ELSE IF action = "paste"
    THEN PasteInto(env, code, clip, target_app, lang, <<>>,
                   "Pasted in " \o target_app, target_app \o "-la paste pannitten", TRUE,
                   find_app(env, target_app))
    ELSE IF action = "copy"
    THEN Result(<<Effect("pyperclip.copy", code)>> \o
                Say("Code copied to clipboard", "Code clipboard-la copy pannitten", lang),
                FALSE, FALSE, code, code)
    ELSE Result(<<>>, FALSE, FALSE, code, clip)

clipboard_action(env, code, clip, action, target_app, lang) ==
    LET failure == Say("Clipboard operation failed", "Clipboard operation fail aachu", lang)
        no_code == Say("No code to copy", "Copy panna code illai", lang)
        copied == <<Effect("pyperclip.copy", code)>> \o
                  Say("Code copied to clipboard", "Code clipboard-la copy pannitten", lang)
    IN IF action = "copy_paste"
       THEN IF code = "" THEN Result(no_code, FALSE, TRUE, code, clip)
            ELSE IF env.clip_raises THEN Result(failure, FALSE, TRUE, code, clip)
            ELSE PasteInto(env, code, code, target_app, lang, copied,
                           "Code pasted in " \o target_app,
                           "Code " \o target_app \o "-la paste pannitten", FALSE,
                           find_app(env, target_app))
       ELSE IF action = "paste"
       THEN PasteInto(env, code, clip, target_app, lang, <<>>,
                      "Pasted in " \o target_app, target_app \o "-la paste pannitten", TRUE,
                      find_app(env, target_app))
       ELSE IF action = "copy"
       THEN IF code = "" THEN Result(no_code, FALSE, TRUE, code, clip)
            ELSE IF env.clip_raises THEN Result(failure, FALSE, TRUE, code, clip)
            ELSE Result(copied, FALSE, FALSE, code, code)
       ELSE Result(<<>>, FALSE, FALSE, code, clip)

\* the pre-announcement of system_control for the actions of action_messages
Announce(action, lang) ==
    CASE action = "shutdown" -> Say("Shutting down computer in 5 seconds",
                                    "5 seconds-la computer shutdown aagum", lang)
      [] action = "restart" -> Say("Restarting computer in 5 seconds",
                                   "5 seconds-la computer restart aagum", lang)
      [] action = "reboot" -> Say("Rebooting computer in 5 seconds",
                                  "5 seconds-la computer reboot aagum", lang)
      [] action = "sleep" -> Say("Putting computer to sleep",
                                 "Computer-a sleep mode-la pottu tharren", lang)
      [] action = "hibernate" -> Say("Hibernating computer", "Computer-a hibernate panren", lang)
      [] action = "logout" -> Say("Logging out", "Logout panren", lang)
      [] action = "lock" -> Say("Locking computer", "Computer-a lock panren", lang)
      [] OTHER -> <<>>

\* system_control once find_app has returned app_path
Controlled(env, code, clip, action, lang, app_path) ==
    LET launched == launch_app(env, app_path)
    IN IF app_path # NotFound /\ StartsWith(app_path, "system:")
       THEN IF launched.ok
            THEN Result(Announce(action, lang) \o launched.trace, FALSE, FALSE, code, clip)
            ELSE Result(Announce(action, lang) \o launched.trace \o
                        Say("Failed to execute system command", "System command execute aagala", lang),
                        FALSE, TRUE, code, clip)
       ELSE Result(Say("Unknown system action: " \o action, action \o " theriyala", lang),
                   FALSE, TRUE, code, clip)

system_control(env, code, clip, action, lang) ==
    Controlled(env, code, clip, action, lang, find_app(env, action))

close_app(env, code, clip, app_name, lang) ==
    IF clean_app_name(app_name) \in process_map
    THEN CASE env.taskkill = "ok" ->
                Result(<<Effect("taskkill", clean_app_name(app_name))>> \o
                       Say("Closed " \o app_name, app_name \o " mudditten", lang),
                       FALSE, FALSE, code, clip)
           [] env.taskkill = "not_running" ->
                Result(Say(app_name \o " is not running", app_name \o " odala", lang),
                       FALSE, TRUE, code, clip)
           [] OTHER -> Result(<<>>, TRUE, TRUE, code, clip)
    ELSE Result(Say("Don't know how to close " \o app_name, app_name \o " mudda theriyala", lang),
                FALSE, TRUE, code, clip)

search_web(env, code, clip, query, lang) ==
    IF env.launch_raises
    THEN Result(Say("Sorry, couldn't perform the search", "Search panna mudiyala", lang),
                FALSE, TRUE, code, clip)
    ELSE Result(<<Effect("webbrowser.open", "google:" \o Strip(query))>> \o
                Say("Here's what I found for " \o query,
                    query \o " pathi Google-la search pannitten", lang),
                FALSE, FALSE, code, clip)

CodeKeywords == {"generate code", "write code", "create program", "code for", "program for",
                 "script for"}

\* general_chat on the lower-cased query; q is what query_ollama_smart returns
\* and leaves in the code cache when the handler calls it
Answered(env, code, clip, query_lower, lang, q) ==
    IF ContainsAny(query_lower, {"vanakkam", "hai", "hello"})
       THEN Result(Say("Hello! How can I help you?", "Vanakkam! Enna help venum?", lang),
                   FALSE, FALSE, code, clip)
       ELSE IF ContainsAny(query_lower, {"how are you", "epdi irukka"})
       THEN Result(Say("I'm doing well, thank you!", "Naan nalla iruken, nandri!", lang),
                   FALSE, FALSE, code, clip)
       ELSE IF ContainsAny(query_lower, {"thank you", "thanks", "nandri"})
       THEN Result(Say("You're welcome! Happy to help!", "Paravala! Vera enna help venum?", lang),
                   FALSE, FALSE, code, clip)
       ELSE IF ContainsAny(query_lower, CodeKeywords)
       THEN IF HasCodeMarker(q.response)
            THEN Result(Say("Code generated! Say 'copy code and paste in vscode' to use it.",
                            "Code generate pannitten! 'Copy code and paste in vscode' sollungal.",
                            lang),
                        FALSE, FALSE, q.response, clip)
            ELSE Result(Speak(q.response, lang), FALSE, ~Accepted(env.out), q.code, clip)
       ELSE IF ~Contains(Lower(q.response), "failed")
            THEN Result(Speak(q.response, lang), FALSE, FALSE, q.code, clip)
            ELSE Result(Say("I'm not sure how to help with that", "Adhu pathi enakku theriyala", lang),
                        FALSE, TRUE, q.code, clip)

general_chat(env, code, clip, query, lang) ==
    Answered(env, code, clip, Lower(query), lang, QueryOllamaSmart(env.out, code))

(***************************************************************************)
(* The command dispatcher (command.py execute_command) and                 *)
(* app.py handle_command. Their results add to a handler's result the      *)
(* handler whose body ran ("none" when none did) and whether the handler   *)
(* call threw.                                                             *)
(***************************************************************************)
Dispatched(handler, r) == [handler |-> handler, threw |-> r.raised] @@ r

\* a "parameters" value of the parsed response that is no JSON object (a string,
\* a list, a number, null), whatever it is
NotADict == [json |-> "not an object"]

IsDict(parameters) == "json" \notin DOMAIN parameters

\* parameters['lang'] = lang and tool_function(**parameters) for tool_name in
\* TOOLS: the assignment is a TypeError when parameters is no dict, and so is a
\* call whose keywords are not exactly the handler's parameters
CallTool(env, code, clip, tool_name, parameters, lang) ==
    IF ~IsDict(parameters)
    THEN Dispatched("none", Result(<<>>, TRUE, TRUE, code, clip))
    ELSE IF (DOMAIN parameters) \cup {"lang"} # RequiredParams(tool_name) \cup {"lang"}
    THEN Dispatched("none", Result(<<>>, TRUE, TRUE, code, clip))
    ELSE Dispatched(tool_name,
             CASE tool_name = "open_app" ->
                    open_app(env, code, clip, parameters.app_name, lang)
               [] tool_name = "close_app" ->
                    close_app(env, code, clip, parameters.app_name, lang)
               [] tool_name = "search_web" ->
                    search_web(env, code, clip, parameters.query, lang)
               [] tool_name = "system_control" ->
                    system_control(env, code, clip, parameters.action, lang)
               [] tool_name = "play_media" ->
                    play_media(env, code, clip, parameters.query, parameters.platform, lang)
               [] tool_name = "clipboard_action" ->
                    clipboard_action(env, code, clip, parameters.action,
                                     parameters.target_app, lang)
               [] tool_name = "general_chat" ->
                    general_chat(env, code, clip, parameters.query, lang))

\* intent.get("parameters", {})
ParametersOf(intent) == IF "parameters" \in DOMAIN intent THEN intent.parameters ELSE <<>>

\* the try block of execute_command
ExecuteBody(env, code, clip, intent, lang) ==
    IF "tool" \in DOMAIN intent /\ intent.tool \in TOOLS
    THEN CallTool(env, code, clip, intent.tool, ParametersOf(intent), lang)
    ELSE Dispatched("general_chat",
                    general_chat(env, code, clip, "I'm not sure what you mean", lang))

\* an except clause of the dispatch path: the exception of r, if any, is
\* swallowed, the apology is spoken and `after` follows
Caught(r, lang, after) ==
    IF r.raised
    THEN [r EXCEPT !.raised = FALSE,
                   !.trace = @ \o Say("Sorry, I had an error processing that",
                                      "Error aachu, mannichanga", lang) \o after]
    ELSE r

\* execute_command without its except clause: the handler's exception propagates
ExecuteCommandUncaught(env, code, clip, intent, lang) ==
    ExecuteBody(env, code, clip, intent, lang)

\* execute_command(intent, lang)
ExecuteCommand(env, code, clip, intent, lang) ==
    Caught(ExecuteBody(env, code, clip, intent, lang), lang, <<>>)

\* socketio.emit('status_update', ...) after execute_command has returned
Completed(r) ==
    IF r.raised THEN r
    ELSE [r EXCEPT !.trace = @ \o <<Effect("status_update", "Command completed")>>]

\* handle_command from its validation of the intent on (app.py lines 224-246)
HandleIntent(env, code, clip, intent, lang) ==
    IF "tool" \notin DOMAIN intent
    THEN Dispatched("none",
                    Result(Say("Sorry, I didn't understand that command",
                               "Command puriyala, marupadiyum sollunga", lang),
                           FALSE, TRUE, code, clip))
    ELSE Caught(Completed(ExecuteCommand(env, code, clip, intent, lang)), lang,
                <<Effect("status_update", "Error")>>)

\* the speak calls of a trace, in order
SpeakCalls(trace) == SelectSeq(trace, LAMBDA e : e.op = "speak")

(***************************************************************************)
(* The state after the modules are loaded (app.py AppState.__init__,       *)
(* command.py AIConfig.__init__) and before any client connects.           *)
(***************************************************************************)
NoFrame == [pc |-> "none", text |-> "", lang |-> "", intent |-> <<>>]

NoSpeech == [lang |-> "", by |-> "none"]

NoHeard == [text |-> "", lang |-> "", msg_lang |-> ""]

AppInit ==
    /\ is_listening = TRUE
    /\ current_lang = "en"
    /\ listener_started = FALSE
    /\ last_generated_code = ""
    /\ clipboard = ""
    /\ lpc = "idle"
    /\ consecutive_failures = 0
    /\ heard = NoHeard
    /\ frames = [loop |-> NoFrame, web |-> NoFrame]
    /\ pending = EmptyBag
    /\ speaking = NoSpeech

NoOut == [kind |-> "none", stdout |-> ""]

NoEnv == [kind |-> "none"]

NoRes == [kind |-> "none"]

HarnessOff ==
    /\ t_text = ""
    /\ t_out = NoOut
    /\ t_intent = <<>>
    /\ t_lang = ""
    /\ t_env = NoEnv
    /\ t_res = NoRes
    /\ t_pc = "off"

(***************************************************************************)
(* The texts and the model outcomes the functions are exercised on.        *)
(***************************************************************************)
\* the longest text, in fragments
MaxWords == 2

Fragments == {"play", "copy", "shutdown", "open", "close", "search", "chrome",
              "hello", "Pluto anna", "  PLUTO  ", "plutonium", "platoon"}

RECURSIVE Join(_)
Join(ws) == IF ws = <<>> THEN ""
            ELSE IF Len(ws) = 1 THEN ws[1]
            ELSE ws[1] \o " " \o Join(Tail(ws))

Texts == {Join(ws) : ws \in UNION {[1..n -> Fragments] : n \in 0..MaxWords}}

\* what the `ollama run` subprocess can do: time out, fail to start, or print
Outcomes ==
    {[kind |-> "timeout", stdout |-> ""], [kind |-> "error", stdout |-> ""]}
    \cup {[kind |-> "ok", stdout |-> o] : o \in {
        "",
        "  ok  ",
        "Error: model 'phi3:mini' not found",
        "I cannot classify that command.",
        "{\"tool\": \"open_app\", \"parameters\": {\"app_name\": \"chrome\"}}",
        "Sure! {\"tool\": \"close_app\", \"parameters\": {\"app_name\": \"chrome\"}} Done.",
        "{\"tool\": \"open_app\", \"parameters\": {\"app_name\": \"chrome\"",
        "\"tool\": \"open_app\", \"parameters\": \"chrome\"}",
        "} the wrong way round {",
        "{tool: open_app, app_name: chrome}",
        "{\"tool\": \"open_app\"} or {\"tool\": \"close_app\"}",
        "{\"action\": \"open\", \"target\": \"chrome\"}",
        "{\"tool\": \"fly_away\", \"parameters\": {}}",
        "{\"tool\": \"play_media\", \"parameters\": {\"query\": \"songs\"}}",
        "def open_chrome(): return {}"
    }}

(***************************************************************************)
(* The classifier and the detector on their own: one call of               *)
(* get_ai_intent(text), or of detect_wake_word(text) and                   *)
(* is_direct_command(text), for each text and each model outcome.          *)
(***************************************************************************)
TextInit ==
    /\ AppInit
    /\ t_text \in Texts
    /\ t_out = NoOut
    /\ t_intent = <<>>
    /\ t_lang = ""
    /\ t_env = NoEnv
    /\ t_res = NoRes
    /\ t_pc = "input"

\* t_intent = get_ai_intent(t_text), the model subprocess doing t_out
TClassify ==
    /\ t_pc = "input"
    /\ \E out \in Outcomes :
          LET r == GetAiIntent(t_text, out, last_generated_code)
          IN /\ t_out' = out
             /\ t_intent' = r.intent
             /\ last_generated_code' = r.code
    /\ t_pc' = "classified"
    /\ UNCHANGED <<is_listening, current_lang, listener_started, clipboard, lpc,
                   consecutive_failures, heard, frames, pending, speaking,
                   t_text, t_lang, t_env, t_res>>

\* t_intent = handle_fallback(t_text)
TFallback ==
    /\ t_pc = "input"
    /\ t_intent' = HandleFallback(t_text)
    /\ t_pc' = "fallback"
    /\ UNCHANGED <<appVars, t_text, t_out, t_lang, t_env, t_res>>

\* t_res = (detect_wake_word(t_text), is_direct_command(t_text))
TDetect ==
    /\ t_pc = "input"
    /\ t_res' = [kind |-> "detected", wake |-> DetectWakeWord(t_text),
                 direct |-> IsDirectCommand(t_text)]
    /\ t_pc' = "detected"
    /\ UNCHANGED <<appVars, t_text, t_out, t_intent, t_lang, t_env>>

TextNext == TClassify \/ TFallback \/ TDetect

SpecText == TextInit /\ [][TextNext]_vars

(***************************************************************************)
(* Claims about the classifier and the detector (checked under SpecText).  *)
(***************************************************************************)
\* an intent is structurally valid: its tool is one of the seven tools and its
\* parameters hold every parameter the tool requires
ValidIntent(intent) ==
    /\ "tool" \in DOMAIN intent
    /\ intent.tool \in TOOLS
    /\ "parameters" \in DOMAIN intent
    /\ RequiredParams(intent.tool) \subseteq DOMAIN intent.parameters

\* C1: whenever the model invocation fails (timeout, subprocess error, empty or
\* short output, output with "Error:"), get_ai_intent(text) returns exactly
\* handle_fallback(text).
C1_FailedModelYieldsFallback ==
    (t_pc = "classified" /\ ~Accepted(t_out)) => t_intent = HandleFallback(t_text)

\* C2: for every text and every model response, get_ai_intent returns an intent
\* whose tool is one of the seven tools and whose parameters hold every
\* parameter that tool requires.
C2_ClassifierTotal ==
    t_pc = "classified" => ValidIntent(t_intent)

\* the fallback rules in their priority order
FallbackRules == <<
    [tool |-> "play_media", words |-> MediaWords],
    [tool |-> "clipboard_action", words |-> ClipboardWords],
    [tool |-> "system_control", words |-> SystemWords],
    [tool |-> "open_app", words |-> OpenWords],
    [tool |-> "close_app", words |-> CloseWords],
    [tool |-> "search_web", words |-> SearchWords] >>

RuleMatches(i, text_lower) == ContainsAny(text_lower, Range(FallbackRules[i].words))

\* the tool of the earliest rule with a keyword in the text, general_chat if none has
FirstMatchingTool(text_lower) ==
    IF \E i \in 1..Len(FallbackRules) : RuleMatches(i, text_lower)
    THEN FallbackRules[CHOOSE i \in 1..Len(FallbackRules) :
                           /\ RuleMatches(i, text_lower)
                           /\ \A j \in 1..(i - 1) : ~RuleMatches(j, text_lower)].tool
    ELSE "general_chat"

\* C5: handle_fallback evaluates its rules in the order media-play, clipboard,
\* system-control, open, close, search, general_chat, and the earliest rule with
\* a keyword in the (lower-cased) text decides the tool.
C5_FirstMatchingRuleWins ==
    t_pc = "fallback" => t_intent.tool = FirstMatchingTool(Lower(t_text))

\* C5's case: a text with a media keyword and a system-control keyword, the
\* system keyword first, classified as play_media
C5_Witness ==
    /\ t_pc = "fallback"
    /\ t_text = "shutdown play"
    /\ RuleMatches(1, Lower(t_text)) /\ RuleMatches(3, Lower(t_text))
    /\ t_intent.tool = "play_media"

\* the accepted response has no '{', or no '}', or its span from the first '{' to
\* the last '}' is no JSON
Unparseable(response) ==
    \/ ~Contains(response, "{")
    \/ ~Contains(response, "}")
    \/ ~JsonLoads(Slice(response, Find(response, "{"), RFind(response, "}") + 1)).ok

\* C6: when the model returns an accepted response with no '{' or no '}', or
\* whose span from the first '{' to the last '}' does not parse as JSON,
\* get_ai_intent(text) returns exactly handle_fallback(text).
C6_UnparseableYieldsFallback ==
    (t_pc = "classified" /\ Accepted(t_out) /\ Unparseable(Strip(t_out.stdout)))
        => t_intent = HandleFallback(t_text)

\* C6's case: the model answered with braces around something that is no JSON,
\* and "open chrome" was classified by the rules
C6_Witness ==
    /\ t_pc = "classified"
    /\ t_text = "open chrome"
    /\ t_out.stdout = "{tool: open_app, app_name: chrome}"
    /\ Accepted(t_out)
    /\ t_intent = [tool |-> "open_app", parameters |-> [app_name |-> "chrome"]]

\* a wake phrase stands in the text as a whole word
WakePhraseAsWord(text_lower) == \E w \in Range(wake_words) : HasWord(text_lower, w)

\* a fuzzy variant of a wake word stands in the text as a whole word
FuzzyWakeAsWord(text_lower) ==
    \E w \in {"bluto", "puto", "gost", "goast"} : HasWord(text_lower, w)

\* C10: detect_wake_word is insensitive to case and surrounding whitespace and
\* respects word boundaries: true for a text with a wake phrase as a whole word,
\* false for a text in which a wake phrase occurs only inside a longer word or
\* that merely resembles one.
C10_WakeRespectsWordBoundaries ==
    t_pc = "detected" =>
        LET text_lower == Strip(Lower(t_text))
        IN /\ WakePhraseAsWord(text_lower) => t_res.wake
           /\ (~WakePhraseAsWord(text_lower) /\ ~FuzzyWakeAsWord(text_lower)) => ~t_res.wake

(***************************************************************************)
(* The intents and the environments the dispatcher is exercised on.        *)
(***************************************************************************)
Intent(tool, parameters) == [tool |-> tool, parameters |-> parameters]

\* intents get_ai_intent can return: it returns the parsed object of the model's
\* response as it is, or one of handle_fallback's intents
DispatchIntents == {
    Intent("open_app", [app_name |-> "chrome"]),
    Intent("open_app", [app_name |-> "shutdown"]),
    Intent("open_app", [app_name |-> "youtube"]),
    Intent("open_app", [app_name |-> "zzz"]),
    Intent("open_app", [app_name |-> ""]),
    Intent("open_app", <<>>),
    Intent("open_app", [app_name |-> "chrome", profile |-> "work"]),
    Intent("close_app", [app_name |-> "chrome"]),
    Intent("close_app", [app_name |-> "zzz"]),
    Intent("close_app", <<>>),
    Intent("search_web", [query |-> "cats"]),
    Intent("search_web", <<>>),
    Intent("system_control", [action |-> "lock"]),
    Intent("system_control", [action |-> "shutdown"]),
    Intent("system_control", [action |-> "Shutdown"]),
    Intent("system_control", [action |-> "explode"]),
    Intent("system_control", <<>>),
    Intent("play_media", [query |-> "songs", platform |-> "youtube"]),
    Intent("play_media", [query |-> "songs", platform |-> "vimeo"]),
    Intent("play_media", [query |-> "songs"]),
    Intent("clipboard_action", [action |-> "copy", target_app |-> "notepad"]),
    Intent("clipboard_action", [action |-> "paste", target_app |-> "chrome"]),
    Intent("clipboard_action", [action |-> "paste", target_app |-> "zzz"]),
    Intent("clipboard_action", [action |-> "copy_paste", target_app |-> "chrome"]),
    Intent("clipboard_action", [action |-> "copy_paste", target_app |-> "zzz"]),
    Intent("clipboard_action", [action |-> "copy"]),
    Intent("general_chat", [query |-> "hello"]),
    Intent("general_chat", [query |-> "what is the capital of France"]),
    Intent("general_chat", [query |-> "write code for sorting"]),
    Intent("general_chat", [query |-> "AI model failed."]),
    Intent("general_chat", <<>>),
    Intent("fly_away", <<>>),
    Intent("fly_away", NotADict),
    Intent("open_app", NotADict),
    [tool |-> "open_app"],
    [action |-> "open", target |-> "chrome"] }

DefaultEnv == [manual |-> {"chrome"}, installed |-> <<>>, missing |-> {},
               launch_raises |-> FALSE, taskkill |-> "ok", clip_raises |-> FALSE,
               hotkey_raises |-> FALSE,
               out |-> [kind |-> "ok", stdout |-> "The capital of France is Paris."]]

\* the default environment and the environments with one fault
Envs == {
    DefaultEnv,
    [DefaultEnv EXCEPT !.launch_raises = TRUE],
    [DefaultEnv EXCEPT !.taskkill = "not_running"],
    [DefaultEnv EXCEPT !.taskkill = "error"],
    [DefaultEnv EXCEPT !.clip_raises = TRUE],
    [DefaultEnv EXCEPT !.hotkey_raises = TRUE],
    [DefaultEnv EXCEPT !.out = [kind |-> "timeout", stdout |-> ""]],
    [DefaultEnv EXCEPT !.out = [kind |-> "ok", stdout |-> "def sort(xs): return sorted(xs)"]],
    [DefaultEnv EXCEPT !.manual = {},
                       !.installed = << <<"google chrome", "C:\\Apps\\chrome.exe">> >>],
    [DefaultEnv EXCEPT !.manual = {},
                       !.installed = << <<"google chrome", "C:\\Apps\\chrome.exe">> >>,
                       !.missing = {"C:\\Apps\\chrome.exe"}] }

Langs == {"en", "ta"}

\* what a code request left in the cache, when one has been made
CachedCodes == {"", "import os"}

(***************************************************************************)
(* The dispatcher on its own: one call of execute_command(intent, lang),   *)
(* or of handle_command from its validation of the intent on, for each     *)
(* intent, environment, language and cached code.                          *)
(***************************************************************************)
DispatchInit ==
    /\ is_listening = TRUE
    /\ current_lang \in Langs
    /\ listener_started = FALSE
    /\ last_generated_code \in CachedCodes
    /\ clipboard = ""
    /\ lpc = "idle"
    /\ consecutive_failures = 0
    /\ heard = NoHeard
    /\ frames = [loop |-> NoFrame, web |-> NoFrame]
    /\ pending = EmptyBag
    /\ speaking = NoSpeech
    /\ t_text = ""
    /\ t_out = NoOut
    /\ t_intent \in DispatchIntents
    /\ t_lang = current_lang
    /\ t_env \in Envs
    /\ t_res = NoRes
    /\ t_pc = "ready"

\* the dispatch r has been made: its record, and what it left in the code
\* cache and on the clipboard
Ran(kind, r) ==
    /\ t_res' = [kind |-> kind] @@ r
    /\ last_generated_code' = r.code
    /\ clipboard' = r.clipboard
    /\ t_pc' = kind

\* t_res = what execute_command(t_intent, t_lang) did
TExecute ==
    /\ t_pc = "ready"
    /\ Ran("executed", ExecuteCommand(t_env, last_generated_code, clipboard, t_intent, t_lang))
    /\ UNCHANGED <<is_listening, current_lang, listener_started, lpc, consecutive_failures,
                   heard, frames, pending, speaking, t_text, t_out, t_intent, t_lang, t_env>>

\* t_res = what handle_command did with the intent t_intent and the language t_lang
THandleIntent ==
    /\ t_pc = "ready"
    /\ Ran("handled", HandleIntent(t_env, last_generated_code, clipboard, t_intent, t_lang))
    /\ UNCHANGED <<is_listening, current_lang, listener_started, lpc, consecutive_failures,
                   heard, frames, pending, speaking, t_text, t_out, t_intent, t_lang, t_env>>

DispatchNext == TExecute \/ THandleIntent

SpecDispatch == DispatchInit /\ [][DispatchNext]_vars

(***************************************************************************)
(* Claims about the dispatcher (checked under SpecDispatch).               *)
(***************************************************************************)
\* the intent's tool is outside the seven tools, or a parameter its tool requires
\* is absent or empty
InvalidIntent(intent) ==
    \/ ~ValidIntent(intent)
    \/ \E k \in RequiredParams(intent.tool) : intent.parameters[k] = ""

NotUnderstood(lang) ==
    Say("Sorry, I didn't understand that command", "Command puriyala, marupadiyum sollunga", lang)

Apology(lang) == Say("Sorry, I had an error processing that", "Error aachu, mannichanga", lang)

\* C3: an invalid intent is never dispatched: for an intent whose tool is outside
\* the seven tools, or that lacks (or has empty) a required parameter,
\* handle_command invokes no tool handler and the only thing said is the
\* "command not understood" response.
C3_InvalidIntentNotDispatched ==
    (t_pc = "handled" /\ InvalidIntent(t_intent)) =>
        /\ t_res.handler = "none"
        /\ SpeakCalls(t_res.trace) = NotUnderstood(t_lang)

\* the apology speak calls of a trace
ApologyCalls(trace, lang) == SelectSeq(trace, LAMBDA e : <<e>> = Apology(lang))

\* C4: dispatch never raises: for every tool of the seven, when the call of its
\* handler throws, execute_command returns normally and exactly one apology
\* speak call is made for that dispatch.
C4_DispatchNeverRaises ==
    (t_pc = "executed" /\ t_res.threw) =>
        /\ ~t_res.raised
        /\ Len(ApologyCalls(t_res.trace, t_lang)) = 1

\* C4's case: close_app ran, taskkill failed with something other than "not
\* running", and the dispatcher apologised once
C4_Witness ==
    /\ t_pc = "executed"
    /\ t_intent.tool = "close_app"
    /\ t_env.taskkill = "error"
    /\ t_res.handler = "close_app"
    /\ t_res.threw
    /\ SpeakCalls(t_res.trace) = Apology(t_lang)

\* C8: every failure path of command handling (unresolved app, failed launch,
\* missing cached code, unknown system action, handler exception, invalid
\* intent) ends with exactly one speak call, made in the active language.
C8_FailureSpeaksExactlyOnce ==
    (t_pc = "handled" /\ t_res.failed) =>
        /\ Len(SpeakCalls(t_res.trace)) = 1
        /\ SpeakCalls(t_res.trace)[1].lang = current_lang

(***************************************************************************)
(* The running assistant: the listener thread (app.py continuous_listener),*)
(* the web event handlers, the handle_command calls of both, and the       *)
(* speech threads of tts.py.                                               *)
(***************************************************************************)
\* the speech threads that may be waiting for the TTS lock at once
MaxPending == 1

\* what the recogniser makes of what is said near the microphone
Spoken == {"a", "pluto", "open chrome", "chrome thorakku", "pluto open chrome"}

\* what r.listen / r.recognize_google do: no speech before the timeout, speech
\* that is not understood, or a recognised text
Audio == {[kind |-> "timeout", text |-> ""], [kind |-> "unknown", text |-> ""]}
         \cup {[kind |-> "text", text |-> t] : t \in Spoken}

TamilWords == {"thorakku", "thoraku", "muddu", "mudu", "pannu", "podu", "vanakkam",
               "sollunga", "kekkala", "kandupidikka", "mudiyala"}

is_tamil_text(text) == text # "" /\ ContainsAny(Lower(text), TamilWords)

\* listen_once(): (text, lang), or None when it falls off its end, which it does
\* for a recognised text of at most one character
listen_once(audio) ==
    IF audio.kind # "text"
    THEN [none |-> FALSE, text |-> "", lang |-> "en"]
    ELSE IF Len(Strip(audio.text)) > 1
    THEN [none |-> FALSE, text |-> Strip(audio.text),
          lang |-> IF is_tamil_text(Strip(audio.text)) THEN "ta" ELSE "en"]
    ELSE [none |-> TRUE, text |-> "", lang |-> ""]

\* what a call of listen_once can return
Captures == {listen_once(audio) : audio \in Audio}

\* the typed messages and the languages the web client sends
WebMessages == {"", "x", "close chrome"}

LangRequests == {"en", "ta", "fr"}

\* what the model subprocess does for a command of the running assistant
MainOutcomes == {[kind |-> "ok", stdout |-> "I cannot classify that command."],
                 [kind |-> "ok", stdout |-> "{\"action\": \"open\", \"target\": \"chrome\"}"]}

MainEnvs == {DefaultEnv}

max_failures == 5

Callers == {"loop", "web"}

\* the texts that reach handle_command, from the microphone or the web client
CommandTexts == {c.text : c \in Captures} \cup WebMessages \cup {Strip(t) : t \in WebMessages}

\* what the code cache and the clipboard can hold: nothing, or a model response
CodeValues == {""} \cup {Strip(o.stdout) : o \in MainOutcomes \cup {env.out : env \in MainEnvs}}

\* get_ai_intent on the texts and the model outcomes of the running assistant
Classified ==
    [text \in CommandTexts, out \in MainOutcomes, code \in CodeValues |->
        GetAiIntent(text, out, code)]

MainIntents ==
    {Classified[text, out, code].intent :
        text \in CommandTexts, out \in MainOutcomes, code \in CodeValues}

\* handle_command, from its validation on, on the intents of the running assistant
Handled ==
    [env \in MainEnvs, code \in CodeValues, clip \in CodeValues, intent \in MainIntents,
     lang \in Langs |-> HandleIntent(env, code, clip, intent, lang)]

\* handle_command(command_text, lang) up to its length test: a command of fewer
\* than two characters is dropped without a word
Frame(command_text, lang) ==
    IF Len(Strip(command_text)) < 2 THEN NoFrame
    ELSE [pc |-> "classify", text |-> Strip(command_text), lang |-> lang, intent |-> <<>>]

\* a speech thread: speak(text, lang) called by `by`. The threads wait for the
\* lock in no order, so the waiting ones are a bag; what each will say is left to
\* the dispatcher's traces
SpeechThread(call, by) == [lang |-> call.lang, by |-> by]

RECURSIVE Started(_, _, _)
\* the waiting threads after the speak calls of a trace, made by `by`
Started(waiting, calls, by) ==
    IF calls = <<>> THEN waiting
    ELSE Started(waiting (+) SetToBag({SpeechThread(Head(calls), by)}), Tail(calls), by)

Init == AppInit /\ HarnessOff

\* the client connects, no other connect being served meanwhile: handle_connect
\* starts the listener thread once (concurrent connects are SpecConnect's)
Connect ==
    /\ IF listener_started
       THEN UNCHANGED <<listener_started, lpc>>
       ELSE listener_started' = TRUE /\ lpc' = "top"
    /\ UNCHANGED <<is_listening, current_lang, last_generated_code, clipboard,
                   consecutive_failures, heard, frames, pending, speaking, harnessVars>>

\* on_user_message(data): handle_command on the thread that serves the event
UserMessage ==
    /\ frames.web.pc = "none"
    /\ \E command_text \in WebMessages :
          IF command_text # ""
          THEN frames' = [frames EXCEPT !.web = Frame(command_text, current_lang)]
          ELSE UNCHANGED frames
    /\ UNCHANGED <<is_listening, current_lang, listener_started, last_generated_code, clipboard,
                   lpc, consecutive_failures, heard, pending, speaking, harnessVars>>

ToggleListening ==
    /\ is_listening' = ~is_listening
    /\ UNCHANGED <<current_lang, listener_started, last_generated_code, clipboard, lpc,
                   consecutive_failures, heard, frames, pending, speaking, harnessVars>>

\* change_language without its test of the requested value
ChangeLanguageUnguarded(new_lang) ==
    /\ current_lang' = new_lang
    /\ UNCHANGED <<is_listening, listener_started, last_generated_code, clipboard, lpc,
                   consecutive_failures, heard, frames, pending, speaking, harnessVars>>

\* change_language: only "en" and "ta" are taken
ChangeLanguage(new_lang) ==
    /\ current_lang' = IF new_lang \in {"en", "ta"} THEN new_lang ELSE current_lang
    /\ UNCHANGED <<is_listening, listener_started, last_generated_code, clipboard, lpc,
                   consecutive_failures, heard, frames, pending, speaking, harnessVars>>

ChangeLanguageEvent == \E new_lang \in LangRequests : ChangeLanguage(new_lang)

\* the while test of continuous_listener: the thread ends when listening is off
LTop ==
    /\ lpc = "top"
    /\ lpc' = IF is_listening THEN "listen" ELSE "exited"
    /\ UNCHANGED <<is_listening, current_lang, listener_started, last_generated_code, clipboard,
                   consecutive_failures, heard, frames, pending, speaking, harnessVars>>

\* text, detected_lang = listen_once(...): unpacking None raises
LListen ==
    /\ lpc = "listen"
    /\ \E got \in Captures :
          IF got.none
          THEN lpc' = "error" /\ UNCHANGED heard
          ELSE /\ lpc' = "got"
               /\ heard' = [text |-> got.text, lang |-> got.lang, msg_lang |-> ""]
    /\ UNCHANGED <<is_listening, current_lang, listener_started, last_generated_code, clipboard,
                   consecutive_failures, frames, pending, speaking, harnessVars>>

\* the language update applied to every capture, the empty ones too
LangOnCaptureUnguarded(cur, text, detected_lang) ==
    IF StartsWith(detected_lang, "ta") THEN "ta" ELSE "en"

\* state.current_lang after the loop has looked at a capture: an empty capture
\* goes back to the top of the loop before the update
LangOnCapture(cur, text, detected_lang) ==
    IF text = "" THEN cur
    ELSE IF detected_lang # "" /\ StartsWith(detected_lang, "ta") THEN "ta" ELSE "en"

\* the failure counter reaching the threshold is taken for exceeding it
TooManyFailuresAtThreshold(failures) == failures >= max_failures

\* if consecutive_failures > max_failures
TooManyFailures(failures) == failures > max_failures

\* the loop testing direct_command before wake_word_found
LProcessDirectFirst ==
    /\ lpc = "got"
    /\ current_lang' = LangOnCapture(current_lang, heard.text, heard.lang)
    /\ IF heard.text = ""
       THEN /\ consecutive_failures' = consecutive_failures + 1
            /\ lpc' = IF TooManyFailures(consecutive_failures + 1) THEN "backoff" ELSE "top"
            /\ heard' = NoHeard
       ELSE /\ consecutive_failures' = 0
            /\ lpc' = IF IsDirectCommand(Strip(heard.text)) THEN "direct"
                      ELSE IF DetectWakeWord(Strip(heard.text)) THEN "wake_ack1"
                      ELSE "sleep"
            /\ UNCHANGED heard
    /\ UNCHANGED <<is_listening, listener_started, last_generated_code, clipboard,
                   frames, pending, speaking, harnessVars>>

\* from `if not text` to the choice between wake word, direct command and neither
LProcess ==
    /\ lpc = "got"
    /\ current_lang' = LangOnCapture(current_lang, heard.text, heard.lang)
    /\ IF heard.text = ""
       THEN /\ consecutive_failures' = consecutive_failures + 1
            /\ lpc' = IF TooManyFailures(consecutive_failures + 1) THEN "backoff" ELSE "top"
            /\ heard' = NoHeard
       ELSE /\ consecutive_failures' = 0
            /\ lpc' = IF DetectWakeWord(Strip(heard.text)) THEN "wake_ack1"
                      ELSE IF IsDirectCommand(Strip(heard.text)) THEN "direct"
                      ELSE "sleep"
            /\ UNCHANGED heard
    /\ UNCHANGED <<is_listening, listener_started, last_generated_code, clipboard,
                   frames, pending, speaking, harnessVars>>

\* time.sleep(2) and consecutive_failures = 0 after too many empty captures, and
\* the `continue`
LBackoff ==
    /\ lpc = "backoff"
    /\ consecutive_failures' = 0
    /\ lpc' = "top"
    /\ UNCHANGED <<is_listening, current_lang, listener_started, last_generated_code, clipboard,
                   heard, frames, pending, speaking, harnessVars>>

\* responses[state.current_lang]: the first of the two reads of the language
LReadMessageLang ==
    /\ lpc \in {"wake_ack1", "nocmd1"}
    /\ heard' = [heard EXCEPT !.msg_lang = current_lang]
    /\ lpc' = IF lpc = "wake_ack1" THEN "wake_ack2" ELSE "nocmd2"
    /\ UNCHANGED <<is_listening, current_lang, listener_started, last_generated_code, clipboard,
                   consecutive_failures, frames, pending, speaking, harnessVars>>

\* speak(responses[...], state.current_lang): the wake acknowledgment
LWakeAck ==
    /\ lpc = "wake_ack2"
    /\ BagCardinality(pending) < MaxPending
    /\ pending' = Started(pending,
                           Speak(IF heard.msg_lang = "ta" THEN "Sollunga, enna help venum?"
                                 ELSE "Yes, how can I help?", current_lang), "listener")
    /\ lpc' = "followup"
    /\ UNCHANGED <<is_listening, current_lang, listener_started, last_generated_code, clipboard,
                   consecutive_failures, heard, frames, speaking, harnessVars>>

\* the follow-up capture after a wake word and the test of what it returned
LFollowup ==
    /\ lpc = "followup"
    /\ \E got \in Captures :
          IF got.none
          THEN lpc' = "error" /\ UNCHANGED <<heard, current_lang>>
          ELSE IF got.text # "" /\ Len(Strip(got.text)) > 2
          THEN /\ current_lang' = IF got.lang # "" /\ StartsWith(got.lang, "ta")
                                  THEN "ta" ELSE current_lang
               /\ heard' = [heard EXCEPT !.text = got.text, !.lang = got.lang]
               /\ lpc' = "wake_call"
          ELSE lpc' = "nocmd1" /\ UNCHANGED <<heard, current_lang>>
    /\ UNCHANGED <<is_listening, listener_started, last_generated_code, clipboard,
                   consecutive_failures, frames, pending, speaking, harnessVars>>

\* speak(no_command_responses[...], state.current_lang)
LNoCommand ==
    /\ lpc = "nocmd2"
    /\ BagCardinality(pending) < MaxPending
    /\ pending' = Started(pending,
                           Speak(IF heard.msg_lang = "ta" THEN "Command kekkala"
                                 ELSE "I didn't hear a command", current_lang), "listener")
    /\ lpc' = "sleep"
    /\ UNCHANGED <<is_listening, current_lang, listener_started, last_generated_code, clipboard,
                   consecutive_failures, heard, frames, speaking, harnessVars>>

\* handle_command(text, state.current_lang), called by the loop and run on its
\* thread: the loop goes on when the call has returned
LCall ==
    /\ lpc \in {"wake_call", "direct"}
    /\ frames' = [frames EXCEPT !.loop = Frame(heard.text, current_lang)]
    /\ lpc' = IF Frame(heard.text, current_lang) = NoFrame THEN "sleep" ELSE "in_call"
    /\ UNCHANGED <<is_listening, current_lang, listener_started, last_generated_code, clipboard,
                   consecutive_failures, heard, pending, speaking, harnessVars>>

\* the loop without its try/except: an exception in an iteration ends the thread
LSleepUncaught ==
    /\ lpc \in {"sleep", "error"}
    /\ lpc' = IF lpc = "error" THEN "exited" ELSE "top"
    /\ heard' = NoHeard
    /\ UNCHANGED <<is_listening, current_lang, listener_started, last_generated_code, clipboard,
                   consecutive_failures, frames, pending, speaking, harnessVars>>

\* time.sleep(0.2) at the end of an iteration, time.sleep(1) in the except clause
LSleep ==
    /\ lpc \in {"sleep", "error"}
    /\ lpc' = "top"
    /\ heard' = NoHeard
    /\ UNCHANGED <<is_listening, current_lang, listener_started, last_generated_code, clipboard,
                   consecutive_failures, frames, pending, speaking, harnessVars>>

\* intent = get_ai_intent(command_clean)
FClassify(f) ==
    /\ frames[f].pc = "classify"
    /\ \E out \in MainOutcomes :
          LET r == Classified[frames[f].text, out, last_generated_code]
          IN /\ frames' = [frames EXCEPT ![f].intent = r.intent, ![f].pc = "dispatch"]
             /\ last_generated_code' = r.code
    /\ UNCHANGED <<is_listening, current_lang, listener_started, clipboard, lpc,
                   consecutive_failures, heard, pending, speaking, harnessVars>>

\* the loop's position when the handle_command call of f has returned
AfterReturn(f) == IF f = "loop" THEN "sleep" ELSE lpc

\* what the dispatch r of caller f leaves: a speech thread for each speak call,
\* the code cache and the clipboard
Left(f, r) ==
    /\ BagCardinality(pending) + Len(SpeakCalls(r.trace)) <= MaxPending
    /\ pending' = Started(pending, SpeakCalls(r.trace), f)
    /\ last_generated_code' = r.code
    /\ clipboard' = r.clipboard

\* the rest of handle_command: validation, execute_command and the handler it
\* calls, and the return to the caller
FDispatch(f) ==
    /\ frames[f].pc = "dispatch"
    /\ \E env \in MainEnvs :
          Left(f, Handled[env, last_generated_code, clipboard, frames[f].intent, frames[f].lang])
    /\ frames' = [frames EXCEPT ![f] = NoFrame]
    /\ lpc' = AfterReturn(f)
    /\ UNCHANGED <<is_listening, current_lang, listener_started, consecutive_failures,
                   heard, speaking, harnessVars>>

\* one of the waiting speech threads takes EnhancedTTS.lock and starts to speak
TtsAcquire ==
    /\ speaking = NoSpeech
    /\ \E thread \in BagToSet(pending) :
          /\ speaking' = thread
          /\ pending' = pending (-) SetToBag({thread})
    /\ UNCHANGED <<is_listening, current_lang, listener_started, last_generated_code, clipboard,
                   lpc, consecutive_failures, heard, frames, harnessVars>>

\* runAndWait returns and the lock is released
TtsFinish ==
    /\ speaking # NoSpeech
    /\ speaking' = NoSpeech
    /\ UNCHANGED <<is_listening, current_lang, listener_started, last_generated_code, clipboard,
                   lpc, consecutive_failures, heard, frames, pending, harnessVars>>

Next ==
    \/ Connect
    \/ UserMessage
    \/ ToggleListening
    \/ ChangeLanguageEvent
    \/ LTop
    \/ LListen
    \/ LProcess
    \/ LBackoff
    \/ LReadMessageLang
    \/ LWakeAck
    \/ LFollowup
    \/ LNoCommand
    \/ LCall
    \/ LSleep
    \/ \E f \in Callers : FClassify(f)
    \/ \E f \in Callers : FDispatch(f)
    \/ TtsAcquire
    \/ TtsFinish

Spec == Init /\ [][Next]_vars

(***************************************************************************)
(* Claims about the running assistant (checked under Spec).                *)
(***************************************************************************)
\* a handle_command call is running on the thread of caller f
InFlight(f) == frames[f].pc # "none"

\* speech started by a command has not been spoken to its end
CommandSpeechOutstanding ==
    \/ speaking.by \in Callers
    \/ \E thread \in BagToSet(pending) : thread.by \in Callers

\* C7: single-flight: at any moment at most one command is in flight; no
\* utterance has just been captured and no handle_command has just started while
\* a command, the speech it triggered included, has not completed.
C7_SingleFlight ==
    /\ ~(InFlight("loop") /\ InFlight("web"))
    /\ ((lpc = "got" /\ heard.text # "") \/ lpc = "wake_call")
          => ~InFlight("web") /\ ~CommandSpeechOutstanding
    /\ \A f \in Callers : frames[f].pc = "classify" => ~CommandSpeechOutstanding

\* a step of the loop that looks at a non-empty capture detected as English
EnglishUtteranceProcessed ==
    lpc = "got" /\ lpc' # "got" /\ heard.text # "" /\ heard.lang = "en"

\* a step that looks at an empty capture, speaks the wake acknowledgment, or
\* runs a command's dispatch
EmptyCaptureAckOrDispatch ==
    \/ lpc = "got" /\ lpc' # "got" /\ heard.text = ""
    \/ lpc \in {"wake_ack1", "wake_ack2"} /\ lpc' # lpc
    \/ \E f \in Callers : frames[f].pc = "dispatch" /\ frames'[f].pc # "dispatch"

\* C9: language stickiness: current_lang leaves "ta" only in a step of the loop
\* that processes a non-empty utterance detected as English, or in a
\* change_language event; empty captures, wake acknowledgments and dispatches
\* never change it.
C9_LanguageSticky ==
    [][/\ (current_lang = "ta" /\ current_lang' # "ta")
            => (EnglishUtteranceProcessed \/ ChangeLanguageEvent)
       /\ EmptyCaptureAckOrDispatch => current_lang' = current_lang]_vars

\* C9's case: the loop heard a Tamil command, which set the language, the
\* command's dispatch has run and returned, and the language is still Tamil
C9_Witness ==
    /\ lpc = "sleep"
    /\ heard.text # "" /\ heard.lang = "ta"
    /\ ~InFlight("loop")
    /\ current_lang = "ta"

\* the loop has made one more speak call
LoopSpokeOnce ==
    /\ BagCardinality(pending') = BagCardinality(pending) + 1
    /\ BagIn([lang |-> current_lang, by |-> "listener"], pending')

\* the loop has called handle_command with command_text
LoopCalled(command_text) ==
    /\ frames'.loop.pc = "classify"
    /\ frames'.loop.text = Strip(command_text)

\* C11: after a wake utterance the loop speaks one acknowledgment and captures a
\* second time; a second capture of more than 2 characters after trimming is
\* handed to handle_command, once; after any other second capture handle_command
\* is not called and one "didn't hear a command" message is spoken.
C11_WakeThenFollowup ==
    [][/\ (lpc = "wake_ack2" /\ lpc' # lpc) => (lpc' = "followup" /\ LoopSpokeOnce)
       /\ (lpc = "followup" /\ lpc' # lpc) =>
             \/ lpc' = "wake_call" /\ Len(Strip(heard'.text)) > 2
             \/ lpc' = "nocmd1" /\ ~InFlight("loop")
       /\ (lpc = "wake_call" /\ lpc' # lpc) => (lpc' = "in_call" /\ LoopCalled(heard.text))
       /\ (lpc \in {"nocmd1", "nocmd2"} /\ lpc' # lpc) =>
             /\ frames'.loop = NoFrame
             /\ lpc = "nocmd2" => (lpc' = "sleep" /\ LoopSpokeOnce)]_vars

(***************************************************************************)
(* More claims about the dispatcher (checked under SpecDispatch).          *)
(***************************************************************************)
\* execute_command has run clipboard_action(action, ..) with nothing in the code cache
ClipboardCallWithoutCode(actions) ==
    /\ t_pc = "executed"
    /\ t_res.handler = "clipboard_action"
    /\ t_intent.parameters.action \in actions
    /\ last_generated_code = ""

NothingToCopy(lang) == Say("No code to copy", "Copy panna code illai", lang)

\* what a trace did to the world, its speak calls left out
Effects(trace) == SelectSeq(trace, LAMBDA e : e.op # "speak")

\* C12: the no-code guard of clipboard_action applies only to the copy-bearing
\* actions: with an empty cached code, "copy" and "copy_paste" say "nothing to
\* copy" and do nothing else (no clipboard write, no launch, no keystroke), while
\* "paste" never says so, does what it does with code in the cache and, its
\* target found and launched, sends the paste keystroke after the launch.
C12_NoCodeGuardOnlyOnCopy ==
    /\ ClipboardCallWithoutCode({"copy", "copy_paste"}) =>
          /\ t_res.trace = NothingToCopy(t_lang)
          /\ clipboard = ""
    /\ ClipboardCallWithoutCode({"paste"}) =>
          LET app_path == find_app(t_env, t_intent.parameters.target_app)
          IN /\ \A i \in 1..Len(t_res.trace) : <<t_res.trace[i]>> # NothingToCopy(t_lang)
             /\ t_res.trace = clipboard_action(t_env, "import os", clipboard, "paste",
                                               t_intent.parameters.target_app, t_lang).trace
             /\ (app_path # NotFound /\ launch_app(t_env, app_path).ok /\ ~t_env.hotkey_raises) =>
                   Effects(t_res.trace) = launch_app(t_env, app_path).trace \o
                                          <<Effect("pyautogui.hotkey", "ctrl+v")>>

\* C12's case: "paste" into chrome with nothing cached: chrome is launched and
\* the keystroke sent
C12_Witness ==
    /\ ClipboardCallWithoutCode({"paste"})
    /\ t_intent.parameters.target_app = "chrome"
    /\ Len(Effects(t_res.trace)) = 2
    /\ Effects(t_res.trace)[2] = Effect("pyautogui.hotkey", "ctrl+v")
    /\ SpeakCalls(t_res.trace) = Speak("Pasted in chrome", "en")

(***************************************************************************)
(* The fallback classifier within a session: calls of handle_fallback on   *)
(* one text, with events between them that change the session: the web     *)
(* client changes the language or toggles listening, and get_ai_intent is   *)
(* called on other texts, the model answering or failing.                  *)
(***************************************************************************)
\* the calls of handle_fallback that are compared
MaxCalls == 2

SessionTexts == {"", "hello", "copy code", "shutdown play", "chrome thorakku", "Search Cats"}

SessionOutcomes == {[kind |-> "timeout", stdout |-> ""],
                    [kind |-> "ok", stdout |-> "I cannot classify that command."],
                    [kind |-> "ok", stdout |-> "def sort(xs): return sorted(xs)"]}

\* the session state a classifier could look at: the active language, the
\* listening flag, the code cache, and what the model did last
Session == <<current_lang, is_listening, last_generated_code, t_out>>

SessionInit ==
    /\ AppInit
    /\ t_text \in SessionTexts
    /\ t_out = NoOut
    /\ t_intent = <<>>
    /\ t_lang = ""
    /\ t_env = NoEnv
    /\ t_res = [kind |-> "fallbacks", calls |-> <<>>]
    /\ t_pc = "session"

\* handle_fallback(t_text): the intent it returns, noted with the session it ran in
SFallback ==
    /\ Len(t_res.calls) < MaxCalls
    /\ t_res' = [t_res EXCEPT !.calls = Append(@, [intent |-> HandleFallback(t_text),
                                                   session |-> Session])]
    /\ UNCHANGED <<appVars, t_text, t_out, t_intent, t_lang, t_env, t_pc>>

\* what the code cache can hold in a session
SessionCodes == {""} \cup {Strip(o.stdout) : o \in SessionOutcomes}

\* get_ai_intent on the texts and the model outcomes of a session
SessionClassified ==
    [text \in SessionTexts, out \in SessionOutcomes, code \in SessionCodes |->
        GetAiIntent(text, out, code)]

\* get_ai_intent(text) on some text, the model subprocess doing out; the intent
\* it returns is not used
SClassify ==
    /\ \E text \in SessionTexts, out \in SessionOutcomes :
          /\ t_out' = out
          /\ last_generated_code' = SessionClassified[text, out, last_generated_code].code
    /\ UNCHANGED <<is_listening, current_lang, listener_started, clipboard, lpc,
                   consecutive_failures, heard, frames, pending, speaking,
                   t_text, t_intent, t_lang, t_env, t_res, t_pc>>

SessionNext == SFallback \/ SClassify \/ ChangeLanguageEvent \/ ToggleListening

SpecSession == SessionInit /\ [][SessionNext]_vars

C14_OneHandlerPerCommand ==
    t_pc = "handled" =>
        /\ t_res.handler \in TOOLS \cup {"none"}
        /\ "tool" \in DOMAIN t_intent => t_res.handler \in TOOLS

\* the status notifications of a trace, in order
Statuses(trace) == SelectSeq(trace, LAMBDA e : e.op = "status_update")

\* C16: for every dispatched command a terminal status is emitted after the
\* handler, the success status only if the handler succeeded and a failure status
\* if the handler failed or raised (the "processing" status, emitted before the
\* classification, precedes both).
C16_TerminalStatusTellsOutcome ==
    (t_pc = "handled" /\ "tool" \in DOMAIN t_intent) =>
        /\ Len(Statuses(t_res.trace)) = 1
        /\ t_res.trace[Len(t_res.trace)] = Statuses(t_res.trace)[1]
        /\ Statuses(t_res.trace)[1].target = "Command completed"
              => (~t_res.failed /\ ~t_res.threw)
        /\ (t_res.failed \/ t_res.threw) => Statuses(t_res.trace)[1].target = "Error"

(***************************************************************************)
(* More claims about the running assistant (checked under Spec).           *)
(***************************************************************************)
\* a step of the loop that looks at the capture it has just made
CaptureProcessed == lpc = "got" /\ lpc' # "got"

LoopSpeaks == lpc \in {"wake_ack2", "nocmd2"} /\ lpc' # lpc

\* C18: the loop's read-then-use of the active language is atomic with respect
\* to change_language: in every speak call the loop makes, the text chosen and
\* the language tag passed come from one value of current_lang, and so does the
\* language of every handle_command call it makes.
C18_LanguageReadAtomic ==
    [][/\ LoopSpeaks => heard.msg_lang = current_lang
       /\ (lpc \in {"wake_call", "direct"} /\ lpc' = "in_call")
             => frames'.loop.lang = current_lang]_vars

\* the listener thread is inside an iteration of its loop
MidIteration == lpc \notin {"idle", "top", "exited"}

\* C19: cancellation is cooperative: the loop reads is_listening only at the top
\* of an iteration. It exits only there and only with the flag cleared; with
\* the flag set it starts the next iteration; an exception in an iteration is
\* caught and leads back to the top; and inside an iteration every step goes on
\* to the next position of the iteration, never to the exit, whatever the flag.
C19_CooperativeCancellation ==
    [][/\ (lpc = "top" /\ lpc' # lpc) => lpc' = IF is_listening THEN "listen" ELSE "exited"
       /\ (lpc' = "exited" /\ lpc # "exited") => (lpc = "top" /\ ~is_listening)
       /\ (lpc' = "listen" /\ lpc # "listen") => (lpc = "top" /\ is_listening)
       /\ (lpc = "error" /\ lpc' # lpc) => lpc' = "top"
       /\ (MidIteration /\ lpc' # lpc) => (lpc' = "top" \/ MidIteration')
       /\ lpc = "exited" => lpc' = "exited"]_vars

\* C19's case: listening was switched off and the loop, back at the top of its
\* iteration, has exited
C19_Witness ==
    /\ lpc = "exited"
    /\ ~is_listening
    /\ listener_started

(***************************************************************************)
(* The speech threads on their own: one producer (the loop, or a handler   *)
(* it runs) makes speak calls one after the other; each call starts a      *)
(* thread (tts.py speak) that waits for EnhancedTTS.lock, emits its        *)
(* log_message and speaks while it holds the lock. The threads are         *)
(* numbered in the order of their calls.                                   *)
(***************************************************************************)
\* the speak calls the producer makes
MaxSpeaks == 3

SpeechTexts == {"", "Yes, how can I help?", "Opening chrome"}

SpeechInit ==
    /\ AppInit
    /\ t_text = ""
    /\ t_out = NoOut
    /\ t_intent = <<>>
    /\ t_lang = ""
    /\ t_env = NoEnv
    /\ t_res = [kind |-> "speech", issued |-> 0]
    /\ t_pc = "speech"

\* the thread of the n-th speak call
NumberedThread(call, n) == SpeechThread(call, "listener") @@ [n |-> n]

\* speak(text, lang): a thread is started, unless the text is blank, and the
\* call returns
PSpeak ==
    /\ t_res.issued < MaxSpeaks
    /\ \E text \in SpeechTexts, lang \in Langs :
          /\ t_text' = text
          /\ t_lang' = lang
          /\ pending' = IF Speak(text, lang) = <<>> THEN pending
                        ELSE pending (+) SetToBag({NumberedThread(Speak(text, lang)[1],
                                                                  t_res.issued + 1)})
    /\ t_res' = [t_res EXCEPT !.issued = @ + 1]
    /\ UNCHANGED <<is_listening, current_lang, listener_started, last_generated_code, clipboard,
                   lpc, consecutive_failures, heard, frames, speaking,
                   t_out, t_intent, t_env, t_pc>>

SpeechNext == PSpeak \/ TtsAcquire \/ TtsFinish

SpecSpeech == SpeechInit /\ [][SpeechNext]_vars

\* C17: notifications keep the producer's order: a speak call's log_message and
\* speech come before those of every later call: the thread that takes the lock
\* is the earliest of the calls still waiting, under every interleaving.
C17_SpeechKeepsCallOrder ==
    [][(speaking' # speaking /\ speaking' # NoSpeech) =>
          \A thread \in BagToSet(pending') : speaking'.n < thread.n]_vars

(***************************************************************************)
(* The model selection on its own: one call of                             *)
(* select_model_for_task(query, task_type), or the call get_ai_intent      *)
(* makes through query_ollama_smart(prompt, text, "fast"), for each query   *)
(* and each set of models `ollama list` names.                             *)
(***************************************************************************)
ModelQueries == {"zzz", "open chrome", "Hello", "explain history", "what is this",
                 "explain code", "solve puzzle", "Solve the LOGIC problem",
                 "write code to open", "play explain solve"}

AllModels == {TASK_MODELS[tier] : tier \in DOMAIN TASK_MODELS}

TaskTypes == {"", "fast", "deep", "reasoning", "chat"}

ModelInit ==
    /\ AppInit
    /\ t_text \in ModelQueries
    /\ t_out = NoOut
    /\ t_intent = <<>>
    /\ t_lang = ""
    /\ t_env \in {[kind |-> "models", available |-> a] : a \in SUBSET AllModels}
    /\ t_res = NoRes
    /\ t_pc = "query"

\* t_res = select_model_for_task(t_text, task_type)
TSelectModel ==
    /\ t_pc = "query"
    /\ \E task_type \in TaskTypes :
          t_res' = [kind |-> "selected", task_type |-> task_type,
                    model |-> select_model_for_task(t_env.available, t_text, task_type)]
    /\ t_pc' = "selected"
    /\ UNCHANGED <<appVars, t_text, t_out, t_intent, t_lang, t_env>>

\* the model get_ai_intent(t_text) runs: query_ollama_smart(prompt, text, "fast")
TIntentModel ==
    /\ t_pc = "query"
    /\ t_res' = [kind |-> "intent_model", task_type |-> "fast",
                 model |-> select_model_for_task(t_env.available, t_text, "fast")]
    /\ t_pc' = "intent_model"
    /\ UNCHANGED <<appVars, t_text, t_out, t_intent, t_lang, t_env>>

ModelNext == TSelectModel \/ TIntentModel

SpecModel == ModelInit /\ [][ModelNext]_vars

\* the keyword hits of the three tiers in a text
Hits(text) == [tier \in DOMAIN TASK_MODELS |->
                  Score(Lower(text), CASE tier = "fast" -> fast_keywords
                                       [] tier = "deep" -> deep_keywords
                                       [] tier = "reasoning" -> reasoning_keywords)]

\* the tier the hit counts name: reasoning iff its count strictly exceeds both
\* others, otherwise deep iff its count strictly exceeds fast's, otherwise fast
TierByHits(text) ==
    IF Hits(text).reasoning > Hits(text).fast /\ Hits(text).reasoning > Hits(text).deep
    THEN "reasoning"
    ELSE IF Hits(text).deep > Hits(text).fast THEN "deep" ELSE "fast"

\* C20 as stated: for intent classification, all models available, the model is
\* that of the tier the keyword hit counts name.
C20_IntentModelByHits ==
    (t_pc = "intent_model" /\ t_env.available = AllModels)
        => t_res.model = TASK_MODELS[TierByHits(t_text)]

\* C20, amended: for intent classification the fast tier is requested and its
\* model is used whenever it is available, whatever the hit counts; the hit
\* counts name the tier only when the fast model is not available, and then the
\* model is that tier's if available, else the first available model in the
\* fallback order, else the fast model.
C20_IntentModelFastWhenAvailable ==
    t_pc = "intent_model" =>
        IF TASK_MODELS.fast \in t_env.available
        THEN t_res.model = TASK_MODELS.fast
        ELSE IF TASK_MODELS[TierByHits(t_text)] \in t_env.available
        THEN t_res.model = TASK_MODELS[TierByHits(t_text)]
        ELSE IF TASK_MODELS.deep \in t_env.available THEN t_res.model = TASK_MODELS.deep
        ELSE IF TASK_MODELS.reasoning \in t_env.available
        THEN t_res.model = TASK_MODELS.reasoning
        ELSE t_res.model = TASK_MODELS.fast

\* C20's case: a text whose reasoning count exceeds the others is classified
\* with the fast model, all models being available
C20_Witness ==
    /\ t_pc = "intent_model"
    /\ t_text = "solve puzzle"
    /\ t_env.available = AllModels
    /\ Hits(t_text) = [fast |-> 0, deep |-> 0, reasoning |-> 2]
    /\ t_res.model = "phi3:mini"

(***************************************************************************)
(* The registry alone: find_app on one name in one environment.            *)
(***************************************************************************)
\* the names find_app is asked for
RegistryNames ==
    {"shutdown", "Lock", "notepad", "chrome", "spotify", "youtube", "soundcloud",
     "gmail", "discord", "google chrome", "Chrome (x64)", "zoom", "code"}

\* what the registry scan found, in scan order
RegistryScans ==
    { <<>>,
      << <<"google chrome", "C:\\Apps\\chrome.exe">>, <<"chrome", "C:\\Old\\chrome.exe">> >>,
      << <<"shutdown", "C:\\Apps\\shutdown.exe">>, <<"youtube", "C:\\Apps\\youtube.exe">>,
         <<"spotify", "C:\\Apps\\spotify.exe">>, <<"notepad", "C:\\Apps\\notepad.exe">> >>,
      << <<"discord", "C:\\Apps\\discord.exe">>, <<"discord canary", "C:\\Apps\\canary.exe">>,
         <<"discord", "C:\\Apps\\discord2.exe">>, <<"visual studio code", "C:\\Apps\\code.exe">> >> }

\* the registry paths that may have gone since the scan
RegistryMissing ==
    { {}, {"C:\\Old\\chrome.exe"}, {"C:\\Apps\\discord2.exe"},
      {"C:\\Apps\\chrome.exe", "C:\\Old\\chrome.exe", "C:\\Apps\\code.exe"} }

RegistryEnvs ==
    {[DefaultEnv EXCEPT !.manual = m, !.installed = i, !.missing = g] :
        m \in {{}, {"chrome"}, {"chrome", "spotify"}}, i \in RegistryScans,
        g \in RegistryMissing}

RegistryInit ==
    /\ AppInit
    /\ t_text \in RegistryNames
    /\ t_out = NoOut
    /\ t_intent = <<>>
    /\ t_lang = ""
    /\ t_env \in RegistryEnvs
    /\ t_res = NoRes
    /\ t_pc = "name"

\* t_res = find_app(t_text)
TFindApp ==
    /\ t_pc = "name"
    /\ t_res' = [kind |-> "found", path |-> find_app(t_env, t_text)]
    /\ t_pc' = "found"
    /\ UNCHANGED <<appVars, t_text, t_out, t_intent, t_lang, t_env>>

RegistryNext == TFindApp

SpecRegistry == RegistryInit /\ [][RegistryNext]_vars

\* the registry names that hold an executable still on disk, in the order the
\* discovered apps are iterated
Discovered(env) ==
    LET names == {env.installed[i][1] : i \in 1..Len(env.installed)}
        first(n) == CHOOSE i \in 1..Len(env.installed) :
                        /\ env.installed[i][1] = n
                        /\ \A j \in 1..(i - 1) : env.installed[j][1] # n
        last(n) == CHOOSE i \in 1..Len(env.installed) :
                        /\ env.installed[i][1] = n
                        /\ \A j \in (i + 1)..Len(env.installed) : env.installed[j][1] # n
    IN {[name |-> n, at |-> first(n), path |-> env.installed[last(n)][2]] :
            n \in {m \in names : env.installed[last(m)][2] \notin env.missing}}

\* the six tables in precedence order: whether each holds the name, and its entry
Tables(env, name) ==
    LET exact == {d \in Discovered(env) : d.name = name}
        partial == {d \in Discovered(env) : Contains(d.name, name)}
    IN << [has |-> name \in system_commands, entry |-> "system:" \o name],
          [has |-> name \in AlwaysMapped \cup env.manual,
           entry |-> IF name \in AlwaysMapped \cup env.manual THEN ManualPath(name) ELSE ""],
          [has |-> name \in web_apps,
           entry |-> IF name \in web_apps THEN "web:" \o WebUrl(name) ELSE ""],
          [has |-> name \in media_platforms, entry |-> "media:" \o name],
          [has |-> exact # {},
           entry |-> IF exact # {} THEN (CHOOSE d \in exact : TRUE).path ELSE ""],
          [has |-> partial # {},
           entry |-> IF partial # {}
                     THEN (CHOOSE d \in partial : \A e \in partial : d.at <= e.at).path
                     ELSE ""] >>

\* the entry of the first table that holds the name, or not-found
ByPrecedence(tables) ==
    IF \A k \in 1..Len(tables) : ~tables[k].has THEN NotFound
    ELSE tables[CHOOSE k \in 1..Len(tables) :
                    tables[k].has /\ \A j \in 1..(k - 1) : ~tables[j].has].entry

\* C21: find_app resolves the cleaned name to the entry of the first of the
\* tables system commands, manual paths, web apps, media platforms, exact
\* discovered executable, substring over discovered executables that holds it,
\* and to not-found when none holds it.
C21_FindAppPrecedence ==
    t_pc = "found" => t_res.path = ByPrecedence(Tables(t_env, clean_app_name(t_text)))

\* C21's case: a name that is a web app, a media platform and a discovered
\* executable at once resolves to the web app
C21_Witness ==
    /\ t_pc = "found"
    /\ t_text = "youtube"
    /\ \A k \in 3..5 : Tables(t_env, "youtube")[k].has
    /\ t_res.path = "web:https://www.youtube.com"

(***************************************************************************)
(* Further claims about the dispatcher and its handlers.                   *)
(***************************************************************************)
\* C22: a dispatch that fails changes no state: current_lang, is_listening, the
\* last-generated-code cache and the clipboard are after execute_command what
\* they were before it.
C22_FailureLeavesStateUnchanged ==
    [][(t_pc = "ready" /\ t_pc' = "executed" /\ (t_res'.failed \/ t_res'.threw))
          => UNCHANGED <<current_lang, is_listening, last_generated_code, clipboard>>]_vars

\* the positions of a trace at which a system command is executed
Executions(trace) == {k \in 1..Len(trace) : trace[k].op = "os.system"}

\* the failure message of system_control
CommandFailed(lang) ==
    Say("Failed to execute system command", "System command execute aagala", lang)

\* C24: when the action of system_control resolves to a system command, a
\* pre-announcement speak call precedes the execution of the command and the
\* failure message is spoken only if the execution failed; when it does not
\* resolve, no command is executed and exactly the "unknown action" message is
\* spoken.
C24_SystemControlOrder ==
    (t_pc = "executed" /\ "tool" \in DOMAIN t_intent /\ t_res.handler = "system_control") =>
        IF clean_app_name(t_intent.parameters.action) \in system_commands
        THEN /\ \A k \in Executions(t_res.trace) :
                    \E j \in 1..(k - 1) :
                        /\ t_res.trace[j].op = "speak"
                        /\ <<t_res.trace[j]>> # CommandFailed(t_lang)
             /\ (\E j \in 1..Len(t_res.trace) : <<t_res.trace[j]>> = CommandFailed(t_lang))
                    => t_env.launch_raises
        ELSE /\ Executions(t_res.trace) = {}
             /\ SpeakCalls(t_res.trace) =
                    Say("Unknown system action: " \o t_intent.parameters.action,
                        t_intent.parameters.action \o " theriyala", t_lang)

\* the queries general_chat answers with a canned reply, without the model
Canned(query_lower) ==
    ContainsAny(query_lower, {"vanakkam", "hai", "hello", "how are you", "epdi irukka",
                              "thank you", "thanks", "nandri"})

\* C25: when general_chat invokes the model and the invocation fails, the one
\* thing spoken is the "not sure" apology, and the failure payload of the model
\* call is not passed to speak.
C25_ChatFailureApologises ==
    (/\ t_pc = "executed"
     /\ "tool" \in DOMAIN t_intent
     /\ t_intent.tool = "general_chat"
     /\ t_res.handler = "general_chat"
     /\ ~Canned(Lower(t_intent.parameters.query))
     /\ ~Accepted(t_env.out))
        => /\ SpeakCalls(t_res.trace) =
                  Say("I'm not sure how to help with that", "Adhu pathi enakku theriyala", t_lang)
           /\ \A k \in 1..Len(t_res.trace) : t_res.trace[k].target # FailPayload

\* C30: the last-generated-code cache is written only by general_chat's
\* code-generation request: classifying a command with get_ai_intent leaves the
\* cache, empty before, empty, for every command text handle_command passes on.
C30_ClassificationLeavesCache ==
    (t_pc = "classified" /\ Len(Strip(t_text)) >= 2) => last_generated_code = ""

(***************************************************************************)
(* Further claims about model selection.                                   *)
(***************************************************************************)
\* the task_type argument names a tier whose model is available, so that
\* select_model_for_task returns it before any keyword is counted
TierGiven(task_type, available) ==
    task_type \in {"fast", "deep", "reasoning"} /\ TASK_MODELS[task_type] \in available

\* C23: when the model of the tier the call settles on is not available,
\* select_model_for_task returns the first available model in the order
\* phi3:mini, llama3:instruct, mistral:latest, and phi3:mini when no model is
\* available.
C23_AvailabilityFallback ==
    (/\ t_pc = "selected"
     /\ ~TierGiven(t_res.task_type, t_env.available)
     /\ TASK_MODELS[TierByHits(t_text)] \notin t_env.available)
        => t_res.model = (IF "phi3:mini" \in t_env.available THEN "phi3:mini"
                          ELSE IF "llama3:instruct" \in t_env.available THEN "llama3:instruct"
                          ELSE IF "mistral:latest" \in t_env.available THEN "mistral:latest"
                          ELSE "phi3:mini")

\* C23's case: the reasoning tier is selected by the hit counts, no model is
\* available, and the fast model is returned as the last resort
C23_Witness ==
    /\ t_pc = "selected"
    /\ t_res.task_type = ""
    /\ TierByHits(t_text) = "reasoning"
    /\ t_env.available = {}
    /\ t_res.model = "phi3:mini"

(***************************************************************************)
(* Further claims about the running assistant.                             *)
(***************************************************************************)
\* C26: current_lang is "en" or "ta" in every reachable state, and so is every
\* language a message lookup of the loop or of handle_command is keyed with.
C26_LangIsEnOrTa ==
    /\ current_lang \in {"en", "ta"}
    /\ lpc \in {"wake_ack2", "nocmd2"} => heard.msg_lang \in {"en", "ta"}
    /\ \A caller \in DOMAIN frames :
           frames[caller].pc # "none" => frames[caller].lang \in {"en", "ta"}

\* C26's case: a typed message is being handled in Tamil though the loop has
\* never run, so the language was set by a change_language event
C26_Witness ==
    /\ lpc = "idle"
    /\ current_lang = "ta"
    /\ frames.web.pc # "none"
    /\ frames.web.lang = "ta"

\* C28: whenever is_listening is set and a client has connected, a listener
\* loop is running: the loop has not ended.
C28_ListenerRunsWhileListening ==
    (is_listening /\ listener_started) => lpc # "exited"

\* C29: a capture that is both wake-bearing and direct-command-shaped takes the
\* wake path: the loop goes on to the acknowledgment, and handle_command is
\* called with a first capture only when no wake word was detected in it.
C29_WakeBeforeDirect ==
    [][/\ (lpc = "got" /\ heard.text # "" /\ DetectWakeWord(Strip(heard.text)))
              => (lpc' \in {"got", "wake_ack1"} /\ frames'.loop = frames.loop)
       /\ lpc' = "direct" => ~DetectWakeWord(Strip(heard'.text))
       /\ (lpc = "direct" /\ LoopCalled(heard.text)) => ~DetectWakeWord(Strip(heard.text))]_vars

\* C29's case: the capture "pluto open chrome" names a wake word and has the
\* shape of a direct command, and the loop is about to acknowledge the wake word
C29_Witness ==
    /\ lpc = "wake_ack1"
    /\ heard.text = "pluto open chrome"
    /\ DetectWakeWord(heard.text)
    /\ IsDirectCommand(heard.text)
    /\ frames.loop = NoFrame

(***************************************************************************)
(* Concurrent connects: with async_mode='threading' each connect event is  *)
(* served on a thread of its own, and handle_connect tests the attribute   *)
(* listener_started, starts the listener thread and sets the attribute in  *)
(* three steps. t_env holds where each handler is, t_res the number of     *)
(* listener threads started.                                               *)
(***************************************************************************)
MaxConnects == 4

Handlers == 1..MaxConnects

ConnectInit ==
    /\ AppInit
    /\ t_text = ""
    /\ t_out = NoOut
    /\ t_intent = <<>>
    /\ t_lang = ""
    /\ t_env = [kind |-> "handlers", pc |-> [h \in Handlers |-> "waiting"]]
    /\ t_res = [kind |-> "listeners", threads |-> 0]
    /\ t_pc = "serving"

\* the handler h goes from `from` to `to`
Step(h, from, to) ==
    /\ t_env.pc[h] = from
    /\ t_env' = [t_env EXCEPT !.pc[h] = to]

\* if not hasattr(handle_connect, 'listener_started')
HCheck(h) ==
    /\ Step(h, "waiting", IF listener_started THEN "done" ELSE "unset")
    /\ UNCHANGED <<appVars, t_text, t_out, t_intent, t_lang, t_res, t_pc>>

\* threading.Thread(target=continuous_listener, daemon=True).start()
HStart(h) ==
    /\ Step(h, "unset", "started")
    /\ t_res' = [t_res EXCEPT !.threads = @ + 1]
    /\ UNCHANGED <<appVars, t_text, t_out, t_intent, t_lang, t_pc>>

\* handle_connect.listener_started = True
HSet(h) ==
    /\ Step(h, "started", "done")
    /\ listener_started' = TRUE
    /\ UNCHANGED <<is_listening, current_lang, last_generated_code, clipboard, lpc,
                   consecutive_failures, heard, frames, pending, speaking,
                   t_text, t_out, t_intent, t_lang, t_res, t_pc>>

ConnectNext == \E h \in Handlers : HCheck(h) \/ HStart(h) \/ HSet(h)

SpecConnect == ConnectInit /\ [][ConnectNext]_vars

\* C27: at most one listener loop thread is ever started, however the connect
\* events interleave.
C27_OneListener == t_pc = "serving" => t_res.threads <= 1
====
